---- MODULE Spec2Model ----
(***************************************************************************)
(* Model of godot-mcp-runtime: the Session Manager (GodotRunner and the    *)
(* project tool handlers), the injection of the bridge autoload into a     *)
(* project's project.godot, and the embedded listener (mcp_bridge.gd).     *)
(***************************************************************************)
EXTENDS Integers, Sequences, FiniteSets, TLC

(***************************************************************************)
(* Bounds                                                                  *)
(***************************************************************************)
\* number of target processes the model lets run_project spawn
MaxProcs == 2
\* longest project.godot (in tokens) drawn as a starting configuration of
\* the injection specification
MaxLen == 3
\* longest input batch and number of datagrams the listener takes
MaxBatch == 2
MaxDatagrams == 2
\* nodes of the live tree below the root window
MaxNodes == 3
\* sendCommand calls, and datagrams and errors on the socket of one call
MaxCalls == 2
MaxEvents == 2
\* entries a capture buffer keeps, entries of one data event, and entries
\* the process writes in all
BufferCap == 2
MaxChunk == 2
MaxOutput == 6
\* entries of a Dictionary or an Array a script returns
MaxItems == 2

(***************************************************************************)
(* Text of project.godot.  A file is a sequence of tokens; a token stands  *)
(* for a fixed piece of text and a file for the concatenation:             *)
(*   "NL"     a line feed                                                  *)
(*   "AUTO"   [autoload]                                                   *)
(*   "SEC"    another section header, e.g. [display]                       *)
(*   "ENTRY"  McpBridge="*res://mcp_bridge.gd"                             *)
(*   "LEGACY" McpScreenshotServer="*res://mcp_screenshot_server.gd"        *)
(*   "KV"     any other text without white space, not starting with "["    *)
(***************************************************************************)
Tokens == {"NL", "AUTO", "SEC", "ENTRY", "LEGACY", "KV"}

\* String.prototype.includes for one of the two autoload entries
Includes(s, e) == \E i \in 1..Len(s) : s[i] = e

\* number of occurrences of token e
RECURSIVE Count(_, _)
Count(s, e) ==
  IF s = <<>> THEN 0
  ELSE (IF Head(s) = e THEN 1 ELSE 0) + Count(Tail(s), e)

\* String.prototype.trimEnd
RECURSIVE trimEnd(_)
trimEnd(s) ==
  IF s = <<>> THEN <<>>
  ELSE IF s[Len(s)] = "NL" THEN trimEnd(SubSeq(s, 1, Len(s) - 1))
  ELSE s

\* length of the run of line feeds that starts at position i
RECURSIVE NlRun(_, _)
NlRun(s, i) ==
  IF i <= Len(s) /\ s[i] = "NL" THEN 1 + NlRun(s, i + 1) ELSE 0

\* content.replace(/\n?<entry>/g, ''), scanning from position i
RECURSIVE ReplaceEntry(_, _, _)
ReplaceEntry(s, i, e) ==
  IF i > Len(s) THEN <<>>
  ELSE IF s[i] = "NL" /\ i + 1 <= Len(s) /\ s[i + 1] = e
       THEN ReplaceEntry(s, i + 2, e)
  ELSE IF s[i] = e THEN ReplaceEntry(s, i + 1, e)
  ELSE <<s[i]>> \o ReplaceEntry(s, i + 1, e)

\* content.replace(/\[autoload\]\s*(?=\n\[|\n*$)/g, ''), scanning from i:
\* an [autoload] header followed only by white space up to the end of the
\* file goes with that white space; one followed by white space and then a
\* section header goes with all but the last line feed.
RECURSIVE ReplaceEmptySection(_, _)
ReplaceEmptySection(s, i) ==
  IF i > Len(s) THEN <<>>
  ELSE IF s[i] = "AUTO"
       THEN LET k == NlRun(s, i + 1)
            IN  IF i + k = Len(s) THEN <<>>
                ELSE IF k >= 1 /\ s[i + 1 + k] \in {"AUTO", "SEC"}
                     THEN ReplaceEmptySection(s, i + k)
                ELSE <<s[i]>> \o ReplaceEmptySection(s, i + 1)
  ELSE <<s[i]>> \o ReplaceEmptySection(s, i + 1)

\* the text removeAutoloadEntry writes back when the entry is present
RemovedText(s, e) ==
  trimEnd(ReplaceEmptySection(ReplaceEntry(s, 1, e), 1)) \o <<"NL">>

\* positions where /^\[autoload\]\s*$/m matches: the header starts a line and
\* is followed by white space up to the end of a line
SectionMatches(s) ==
  {i \in 1..Len(s) :
     /\ s[i] = "AUTO"
     /\ (i = 1 \/ s[i - 1] = "NL")
     /\ (NlRun(s, i + 1) >= 1 \/ i = Len(s))}

\* the text injectBridgeAutoload writes when the entry is absent
InjectedText(s) ==
  IF SectionMatches(s) # {}
  THEN LET i == CHOOSE j \in SectionMatches(s) :
                  \A m \in SectionMatches(s) : j <= m
           k == NlRun(s, i + 1)
           \* the match takes the header and all line feeds but the last,
           \* or all of them when they reach the end of the file
           last == IF i + k = Len(s) THEN Len(s) ELSE i + k - 1
       IN  SubSeq(s, 1, i - 1) \o <<"AUTO", "NL", "ENTRY">>
             \o SubSeq(s, last + 1, Len(s))
  ELSE trimEnd(s) \o <<"NL", "NL", "AUTO", "NL", "ENTRY", "NL">>

(***************************************************************************)
(* Files of one project root                                               *)
(*   godot     text of project.godot                                       *)
(*   bridge    mcp_bridge.gd exists                                        *)
(*   uid       mcp_bridge.gd.uid exists                                    *)
(*   legacyGd  mcp_screenshot_server.gd exists                             *)
(*   mcp       .mcp: "none", "dir" (directory only), "ignored" (.gdignore) *)
(*   gitExists .gitignore exists;  git: its text over "LINE", "NL", "MCP"  *)
(***************************************************************************)
\* the rewrite of project.godot done without looking for the entry first
removeBridgeEntry_always(f) ==
  [f EXCEPT !.godot  = RemovedText(f.godot, "ENTRY"),
            !.bridge = FALSE,
            !.uid    = FALSE]

\* removeAutoloadEntry(projectPath, 'McpBridge', 'mcp_bridge.gd')
removeBridgeEntry(f) ==
  [f EXCEPT !.godot  = IF Includes(f.godot, "ENTRY")
                       THEN RemovedText(f.godot, "ENTRY") ELSE f.godot,
            !.bridge = FALSE,
            !.uid    = FALSE]

\* removeAutoloadEntry(projectPath, 'McpScreenshotServer', ...)
removeLegacyEntry(f) ==
  [f EXCEPT !.godot    = IF Includes(f.godot, "LEGACY")
                         THEN RemovedText(f.godot, "LEGACY") ELSE f.godot,
            !.legacyGd = FALSE]

\* the .gitignore part of injectBridgeAutoload
GitignoreAfter(f) ==
  IF f.gitExists
  THEN IF Includes(f.git, "MCP") THEN f.git
       ELSE f.git
              \o (IF Len(f.git) > 0 /\ f.git[Len(f.git)] = "NL"
                  THEN <<>> ELSE <<"NL">>)
              \o <<"MCP", "NL">>
  ELSE <<"MCP", "NL">>

\* the file effects of injectBridgeAutoload when the root is not in
\* injectedProjects
InjectFiles(f) ==
  LET g == removeLegacyEntry([f EXCEPT !.mcp = "ignored",
                                       !.gitExists = TRUE,
                                       !.git = GitignoreAfter(f)])
  IN  [g EXCEPT !.bridge = TRUE,
                !.godot  = IF Includes(g.godot, "ENTRY") THEN g.godot
                           ELSE InjectedText(g.godot)]

\* an injection that checks neither injectedProjects nor the file for the
\* entry
injectBridgeAutoload_always(inj, f, root) ==
  [inj |-> inj \cup {root},
   f |-> [InjectFiles(f) EXCEPT
            !.godot = InjectedText(removeLegacyEntry(f).godot)]]

\* injectBridgeAutoload: the pair of injectedProjects and the root's files
injectBridgeAutoload(inj, f, root) ==
  IF root \in inj THEN [inj |-> inj, f |-> f]
  ELSE [inj |-> inj \cup {root}, f |-> InjectFiles(f)]

\* cleanupBridgeAutoload
cleanupBridgeAutoload(inj, f, root) ==
  [inj |-> inj \ {root}, f |-> removeBridgeEntry(f)]


(***************************************************************************)
(* Session Manager: GodotRunner and the project tool handlers              *)
(***************************************************************************)
Roots == {"A", "B"}
NoRoot == "none"
\* strings that contain ".."
DotDot == {"../A", "../main.tscn"}
\* a directory without a project.godot
EmptyDir == "empty"
\* a scene argument on which runProject throws after the injection: a value
\* that is not a string (validatePath calls path.includes) or a string with
\* a NUL character (spawn rejects the argument list)
BadScene == "nul"
\* project paths and scenes a run_project call is made with ("" is absent)
PathInputs == Roots \cup {"", "../A", EmptyDir}
SceneInputs == {"", "main.tscn", "../main.tscn", BadScene}
Pids == 1..MaxProcs
NoProc == 0
RuntimeTools == {"take_screenshot", "simulate_input", "get_ui_elements",
                 "run_script"}

VARIABLES
  fs,                \* files of each project root
  injectedProjects,  \* GodotRunner.injectedProjects
  activeProcess,     \* GodotRunner.activeProcess: a pid or NoProc
  activeProjectPath, \* GodotRunner.activeProjectPath: a root or NoRoot
  procOs,            \* each target process: "none", "running", "killed"
                     \*   (signal sent, not yet dead), "exited"
  procRoot,          \* the root each process was spawned against
  hasExited,         \* GodotProcess.hasExited, set by the exit callback
  listener,          \* the bridge inside each process: "none", "booting",
                     \*   "ready", "failed" (bind failed), "absent" (not
                     \*   registered), "stopped"
  lastOp,            \* the last tool call: its name, whether it succeeded
                     \*   (for a runtime tool: sent its datagram) and, for
                     \*   run_project and stop_project, the root of the
                     \*   process tracked before it
  orig,              \* the files of each root in the initial state
  call,              \* the last direct call of injectBridgeAutoload or
                     \*   cleanupBridgeAutoload and the state before it
  _is_processing_input, \* listener: the single-flight flag
  suspended,         \* listener: the coroutines waiting for a timer
  lastReply,         \* listener: the last reply sent and what it answers
  received,          \* listener: number of datagrams taken so far
  replies,           \* listener: packets sent to the peer of each datagram
  tree,              \* the live tree of the running scene
  readOnly,          \* the roots whose directory cannot be written
  send,              \* the last sendCommand call: its promise, socket, timer
  capture            \* the output and errors buffers of a GodotProcess and
                     \*   everything that was appended to them (in the
                     \*   pre-emption specification: of each process)

svars == <<fs, injectedProjects, activeProcess, activeProjectPath, procOs,
           procRoot, hasExited, listener, lastOp, orig>>
lvars == <<_is_processing_input, suspended, lastReply, received, replies,
           tree>>
xvars == <<readOnly, send, capture>>
vars == <<svars, call, lvars, xvars>>
\* what the session manager's operations leave alone
notSession == <<call, lvars, xvars>>

validatePath(path) == ~(path = "" \/ path \in DotDot)

\* existsSync(join(projectPath, 'project.godot'))
ProjectFileExists(path) == path \in Roots

\* a kill that never delivers the signal
kill_dropped(os, p) == os

\* ChildProcess.kill(): the signal reaches a process that is still running
kill(os, p) == IF os[p] = "running" THEN [os EXCEPT ![p] = "killed"] ELSE os

\* the root of the tracked process: the root of the last start that spawned
Tracked == IF activeProcess # NoProc THEN procRoot[activeProcess] ELSE NoRoot

NextPid == 1 + Cardinality({p \in Pids : procOs[p] # "none"})

\* the comparison of the roots inverted
\* cleanupBridgeAutoload on the files as they are: removeAutoloadEntry
\* catches what its writes throw when the directory of the root cannot be
\* written, and the root leaves injectedProjects all the same
Cleanup(inj, f, root) ==
  IF root \in readOnly THEN [inj |-> inj \ {root}, f |-> f]
  ELSE cleanupBridgeAutoload(inj, f, root)

CleanupOnSwitch_same(root) ==
  /\ activeProcess # NoProc
  /\ activeProjectPath # NoRoot
  /\ activeProjectPath = root

\* runProject cleans the old root up when a process is tracked and the new
\* root differs from the active one
CleanupOnSwitch(root) ==
  /\ activeProcess # NoProc
  /\ activeProjectPath # NoRoot
  /\ activeProjectPath # root

\* injectedProjects and the files after that cleanup
AfterCleanup(root) ==
  IF CleanupOnSwitch(root)
  THEN LET c == Cleanup(injectedProjects,
                        fs[activeProjectPath], activeProjectPath)
       IN  [inj |-> c.inj, fs |-> [fs EXCEPT ![activeProjectPath] = c.f]]
  ELSE [inj |-> injectedProjects, fs |-> fs]

\* and after the injection into the new root, which throws at its first
\* write when the directory of the root cannot be written
AfterInject(root) ==
  LET a == AfterCleanup(root)
      r == IF root \in readOnly /\ root \notin a.inj
           THEN [inj |-> a.inj, f |-> a.fs[root]]
           ELSE injectBridgeAutoload(a.inj, a.fs[root], root)
  IN  [inj |-> r.inj, fs |-> [a.fs EXCEPT ![root] = r.f]]

\* a runProject that lets the error of the injection through
Throws_injection(root, scene) ==
  \/ scene = BadScene
  \/ root \in readOnly /\ root \notin AfterCleanup(root).inj

\* what makes runProject throw: the scene argument; an injection that
\* throws is caught and logged
Throws(root, scene) == scene = BadScene

\* GodotRunner.runProject; the handler's catch turns a throw into an error
runProject(root, scene) ==
  LET old == activeProcess
      os1 == IF old # NoProc THEN kill(procOs, old) ELSE procOs
      a == AfterInject(root)
      throws == Throws(root, scene)
      pid == NextPid
  IN  /\ throws \/ pid <= MaxProcs
      /\ fs' = a.fs
      /\ injectedProjects' = a.inj
      /\ activeProjectPath' = root
      /\ IF throws
         THEN /\ procOs' = os1
              /\ UNCHANGED <<activeProcess, procRoot, listener>>
         ELSE /\ procOs' = [os1 EXCEPT ![pid] = "running"]
              /\ procRoot' = [procRoot EXCEPT ![pid] = root]
              /\ listener' = [listener EXCEPT ![pid] = "booting"]
              /\ activeProcess' = pid
      /\ lastOp' = [op |-> "run_project", ok |-> ~throws, prev |-> Tracked]
      /\ UNCHANGED <<hasExited, orig>>

handleRunProject(path, scene) ==
  /\ IF path = "" \/ ~validatePath(path) \/ ~ProjectFileExists(path)
     THEN /\ lastOp' = [op |-> "run_project", ok |-> FALSE, prev |-> Tracked]
          /\ UNCHANGED <<fs, injectedProjects, activeProcess,
                         activeProjectPath, procOs, procRoot, hasExited,
                         listener, orig>>
     ELSE runProject(path, scene)
  /\ UNCHANGED notSession

\* a stop that cleans the active root up whether a process is tracked or
\* not
StopTracked_cleaning(caller) ==
  /\ procOs' = IF activeProcess = NoProc THEN procOs
                ELSE kill(procOs, activeProcess)
  /\ activeProcess' = NoProc
  /\ IF activeProjectPath # NoRoot
     THEN LET c == Cleanup(injectedProjects,
                       fs[activeProjectPath], activeProjectPath)
          IN  /\ fs' = [fs EXCEPT ![activeProjectPath] = c.f]
              /\ injectedProjects' = c.inj
     ELSE UNCHANGED <<fs, injectedProjects>>
  /\ activeProjectPath' = NoRoot
  /\ lastOp' = [op |-> caller, ok |-> activeProcess # NoProc,
                prev |-> Tracked]
  /\ UNCHANGED <<procRoot, hasExited, listener, orig>>

\* GodotRunner.stopProject as `caller` calls it: a null result when no
\* process is tracked
StopTracked(caller) ==
  IF activeProcess = NoProc
  THEN /\ lastOp' = [op |-> caller, ok |-> FALSE, prev |-> Tracked]
       /\ UNCHANGED <<fs, injectedProjects, activeProcess, activeProjectPath,
                      procOs, procRoot, hasExited, listener, orig>>
  ELSE /\ procOs' = kill(procOs, activeProcess)
       /\ activeProcess' = NoProc
       /\ IF activeProjectPath # NoRoot
          THEN LET c == Cleanup(injectedProjects,
                            fs[activeProjectPath], activeProjectPath)
               IN  /\ fs' = [fs EXCEPT ![activeProjectPath] = c.f]
                   /\ injectedProjects' = c.inj
          ELSE UNCHANGED <<fs, injectedProjects>>
       /\ activeProjectPath' = NoRoot
       /\ lastOp' = [op |-> caller, ok |-> TRUE, prev |-> Tracked]
       /\ UNCHANGED <<procRoot, hasExited, listener, orig>>

stopProject == StopTracked("stop_project")

handleStopProject ==
  /\ stopProject
  /\ UNCHANGED notSession

\* a get_debug_output that stops tracking a process that has exited
handleGetDebugOutput_forgetting ==
  /\ lastOp' = [op |-> "get_debug_output", ok |-> activeProcess # NoProc,
                prev |-> NoRoot]
  /\ activeProcess' = IF activeProcess # NoProc /\ hasExited[activeProcess]
                      THEN NoProc ELSE activeProcess
  /\ UNCHANGED <<fs, injectedProjects, activeProjectPath, procOs, procRoot,
                 hasExited, listener, orig>>
  /\ UNCHANGED notSession

\* handleGetDebugOutput: the buffers and the exit code of the tracked
\* process, whether it runs or not
handleGetDebugOutput ==
  /\ lastOp' = [op |-> "get_debug_output", ok |-> activeProcess # NoProc,
                prev |-> NoRoot]
  /\ UNCHANGED <<fs, injectedProjects, activeProcess, activeProjectPath,
                 procOs, procRoot, hasExited, listener, orig>>
  /\ UNCHANGED notSession

\* the check without the look at hasExited
ProcessActive_tracked == activeProcess # NoProc

\* the check every runtime tool makes before it sends
ProcessActive == activeProcess # NoProc /\ ~hasExited[activeProcess]

\* a runtime tool: refused without a running process or with arguments the
\* handler rejects; else sendCommand puts one datagram on 127.0.0.1:9900
RuntimeTool(tool, argsOk) ==
  /\ lastOp' = [op |-> tool, ok |-> ProcessActive /\ argsOk, prev |-> NoRoot]
  /\ UNCHANGED <<injectedProjects, activeProcess, activeProjectPath, procOs,
                 procRoot, hasExited, listener, orig>>
  /\ UNCHANGED notSession

handleTakeScreenshot ==
  /\ RuntimeTool("take_screenshot", TRUE)
  /\ UNCHANGED fs

\* argsOk: actions is a non-empty array
handleSimulateInput(argsOk) ==
  /\ RuntimeTool("simulate_input", argsOk)
  /\ UNCHANGED fs

handleGetUiElements ==
  /\ RuntimeTool("get_ui_elements", TRUE)
  /\ UNCHANGED fs

\* argsOk: script is a non-empty string that contains "func execute"; the
\* script is saved under .mcp/scripts of the active root before the send
\* (mkdir creates .mcp when it is missing; the saved copies, named by the
\* clock, are not kept in the model)
handleRunScript(argsOk) ==
  /\ RuntimeTool("run_script", argsOk)
  /\ IF /\ ProcessActive /\ argsOk
        /\ activeProjectPath # NoRoot /\ activeProjectPath \notin readOnly
     THEN fs' = [fs EXCEPT ![activeProjectPath] =
                   [@ EXCEPT !.mcp = IF @ = "none" THEN "dir" ELSE @]]
     ELSE UNCHANGED fs

(***************************************************************************)
(* The target process and the engine                                       *)
(***************************************************************************)
\* the engine starts: the bridge autoload runs _ready if project.godot
\* registers it, and binds port 9900 unless another live bridge holds it
_ready(p) ==
  /\ procOs[p] = "running"
  /\ listener[p] = "booting"
  /\ LET f == fs[procRoot[p]]
         registered == Includes(f.godot, "ENTRY") /\ f.bridge
         portFree == \A q \in Pids \ {p} :
                        ~(listener[q] = "ready" /\ procOs[q] # "exited")
     IN  listener' = [listener EXCEPT ![p] =
                        IF ~registered THEN "absent"
                        ELSE IF portFree THEN "ready" ELSE "failed"]
  /\ UNCHANGED <<fs, injectedProjects, activeProcess, activeProjectPath,
                 procOs, procRoot, hasExited, lastOp, orig>>
  /\ UNCHANGED notSession

\* the process dies: by the signal, by a crash or by quitting
ProcExits(p) ==
  /\ procOs[p] \in {"running", "killed"}
  /\ procOs' = [procOs EXCEPT ![p] = "exited"]
  /\ listener' = [listener EXCEPT ![p] = "stopped"]
  /\ UNCHANGED <<fs, injectedProjects, activeProcess, activeProjectPath,
                 procRoot, hasExited, lastOp, orig>>
  /\ UNCHANGED notSession

\* an exit callback that forgets the process and cleans its root up
OnExit_cleaning(p) ==
  /\ procOs[p] = "exited"
  /\ ~hasExited[p]
  /\ hasExited' = [hasExited EXCEPT ![p] = TRUE]
  /\ activeProcess' = IF activeProcess = p THEN NoProc ELSE activeProcess
  /\ UNCHANGED <<fs, injectedProjects, activeProjectPath, procOs, procRoot,
                 listener, lastOp, orig>>
  /\ UNCHANGED notSession

\* proc.on('exit'): the callback of that process marks it as exited
OnExit(p) ==
  /\ procOs[p] = "exited"
  /\ ~hasExited[p]
  /\ hasExited' = [hasExited EXCEPT ![p] = TRUE]
  /\ UNCHANGED <<fs, injectedProjects, activeProcess, activeProjectPath,
                 procOs, procRoot, listener, lastOp, orig>>
  /\ UNCHANGED notSession

(***************************************************************************)
(* Initial states of the session specification                             *)
(***************************************************************************)
\* the files of a root
ProjectFile(text, bridge, uid, legacyGd, mcp, gitExists, git) ==
  [godot |-> text, bridge |-> bridge, uid |-> uid, legacyGd |-> legacyGd,
   mcp |-> mcp, gitExists |-> gitExists, git |-> git]

\* a new project as the editor writes it, without autoloads and ignore files
FreshProject ==
  ProjectFile(<<"SEC", "NL", "NL", "KV", "NL">>,
              FALSE, FALSE, FALSE, "none", FALSE, <<>>)

\* a project with an autoload and the legacy screenshot server registered,
\* and a .gitignore whose last line has no line feed
UsedProject ==
  ProjectFile(<<"SEC", "NL", "NL", "KV", "NL", "NL",
                "AUTO", "NL", "NL", "KV", "NL", "LEGACY", "NL">>,
              FALSE, FALSE, TRUE, "none", TRUE, <<"LINE">>)

StartProjects == {FreshProject, UsedProject}

\* the live tree below the root window: node n hangs under parent (0 is the
\* root window, which is no Control), children in the order of their
\* numbers; `control`: the node is a Control, of class `class`
TreeNode(name, parent, control, class, visible) ==
  [name |-> name, parent |-> parent, control |-> control, class |-> class,
   visible |-> visible]

\* Main (Panel) with a Button Ok and a hidden Label Hint
DemoTree ==
  <<TreeNode("Main", 0, TRUE, "Panel", TRUE),
    TreeNode("Ok", 1, TRUE, "Button", TRUE),
    TreeNode("Hint", 1, TRUE, "Label", FALSE)>>

\* before the first sendCommand
NoSend == [calls |-> 0, command |-> "none", settled |-> TRUE, settles |-> 0,
           result |-> "none", first |-> "none", closes |-> 0,
           timer |-> "none", callback |-> "none", events |-> 0,
           timeoutMs |-> 0, actions |-> <<>>]
\* a process that has written nothing
\* `response`: what the last get_debug_output returned of the buffers
NoResponse == [asked |-> FALSE, limitNum |-> FALSE, limit |-> 0,
               output |-> <<>>, errors |-> <<>>]
NoCapture == [output |-> <<>>, errors |-> <<>>, allOutput |-> <<>>,
              allErrors |-> <<>>, failed |-> FALSE, response |-> NoResponse]
NoCall == [op |-> "none", root |-> NoRoot, again |-> FALSE,
           f |-> FreshProject, inj |-> {}]
NoError == [msg |-> "", idx |-> -1, arg |-> ""]
NoReply == [peer |-> 0, cmd |-> "none", batch |-> <<>>, busy |-> FALSE,
            error |-> NoError, processed |-> -1, emitted |-> 0,
            elements |-> <<>>, ran |-> <<>>, events |-> <<>>]

\* the listener before its first datagram
ListenerIdle ==
  /\ _is_processing_input = FALSE
  /\ suspended = {}
  /\ lastReply = NoReply
  /\ received = 0
  /\ replies = [p \in 1..MaxDatagrams |-> 0]

\* the session manager after construction
SessionIdle ==
  /\ injectedProjects = {}
  /\ activeProcess = NoProc
  /\ activeProjectPath = NoRoot
  /\ procOs = [p \in Pids |-> "none"]
  /\ procRoot = [p \in Pids |-> NoRoot]
  /\ hasExited = [p \in Pids |-> FALSE]
  /\ listener = [p \in Pids |-> "none"]
  /\ lastOp = [op |-> "none", ok |-> TRUE, prev |-> NoRoot]
  /\ send = NoSend
  /\ capture = NoCapture

Init ==
  /\ fs \in {[r \in Roots |-> IF r = "A" THEN p ELSE FreshProject] :
              p \in StartProjects}
  /\ orig = fs
  /\ SessionIdle
  /\ call = NoCall
  /\ ListenerIdle
  /\ tree = DemoTree
  /\ readOnly = {}

Next ==
  \/ \E path \in PathInputs, scene \in SceneInputs :
        handleRunProject(path, scene)
  \/ handleStopProject
  \/ handleGetDebugOutput
  \/ handleTakeScreenshot
  \/ \E argsOk \in BOOLEAN : handleSimulateInput(argsOk)
  \/ handleGetUiElements
  \/ \E argsOk \in BOOLEAN : handleRunScript(argsOk)
  \/ \E p \in Pids : _ready(p)
  \/ \E p \in Pids : ProcExits(p)
  \/ \E p \in Pids : OnExit(p)

Spec == Init /\ [][Next]_vars

\* the same session on new projects of which A, or both, cannot be written
FaultyInit ==
  /\ fs = [r \in Roots |-> FreshProject]
  /\ orig = fs
  /\ SessionIdle
  /\ call = NoCall
  /\ ListenerIdle
  /\ tree = DemoTree
  /\ readOnly \in {{"A"}, Roots}

SpecFaulty == FaultyInit /\ [][Next]_vars


\* the directory of a root stops being writable while the session runs
Protect(root) ==
  /\ root \notin readOnly
  /\ readOnly' = readOnly \cup {root}
  /\ UNCHANGED <<svars, call, lvars, send, capture>>

\* the session on new projects, one of which may become unwritable
ProtectInit ==
  /\ fs = [r \in Roots |-> FreshProject]
  /\ orig = fs
  /\ SessionIdle
  /\ call = NoCall
  /\ ListenerIdle
  /\ tree = DemoTree
  /\ readOnly = {}

ProtectNext ==
  \/ Next
  \/ Protect("A")

SpecProtect == ProtectInit /\ [][ProtectNext]_vars

\* the handler of SIGINT and SIGTERM: cleanup() calls stopProject, then
\* the server exits
cleanup ==
  /\ lastOp.op # "shutdown"
  /\ StopTracked("shutdown")
  /\ UNCHANGED notSession

\* the session up to the shutdown signal; nothing runs in a server that
\* has exited
ShutdownNext ==
  \/ lastOp.op # "shutdown" /\ Next
  \/ cleanup

SpecShutdown == Init /\ [][ShutdownNext]_vars

(***************************************************************************)
(* Injection specification: injectBridgeAutoload and cleanupBridgeAutoload *)
(* called directly, on every starting configuration of root A              *)
(***************************************************************************)
SeqsUpTo(n) == UNION {[1..m -> Tokens] : m \in 0..n}

\* the files around project.godot: nothing; what a session that was never
\* stopped left behind; a project of the legacy screenshot server; a
\* .gitignore without the .mcp/ line
SideFiles ==
  { [bridge |-> FALSE, uid |-> FALSE, legacyGd |-> FALSE, mcp |-> "none",
     gitExists |-> FALSE, git |-> <<>>],
    [bridge |-> TRUE, uid |-> TRUE, legacyGd |-> FALSE, mcp |-> "ignored",
     gitExists |-> TRUE, git |-> <<"MCP", "NL">>],
    [bridge |-> FALSE, uid |-> FALSE, legacyGd |-> TRUE, mcp |-> "dir",
     gitExists |-> TRUE, git |-> <<"LINE">>],
    [bridge |-> FALSE, uid |-> FALSE, legacyGd |-> FALSE, mcp |-> "none",
     gitExists |-> TRUE, git |-> <<"LINE", "NL">>] }

\* every project.godot of at most MaxLen tokens that registers the bridge at
\* most once
StartConfigurations ==
  {ProjectFile(t, x.bridge, x.uid, x.legacyGd, x.mcp, x.gitExists, x.git) :
     t \in {u \in SeqsUpTo(MaxLen) : Count(u, "ENTRY") <= 1}, x \in SideFiles}

InjectInit ==
  /\ fs \in {[r \in Roots |-> IF r = "A" THEN f ELSE FreshProject] :
               f \in StartConfigurations}
  /\ orig = fs
  /\ SessionIdle
  /\ call = NoCall
  /\ ListenerIdle
  /\ tree = DemoTree
  /\ readOnly = {}

\* what a direct call leaves alone
notFiles == <<activeProcess, activeProjectPath, procOs, procRoot, hasExited,
              listener, lastOp, orig, lvars, xvars>>

\* a call of GodotRunner.injectBridgeAutoload(root)
InjectCall(root) ==
  LET x == injectBridgeAutoload(injectedProjects, fs[root], root)
  IN  /\ fs' = [fs EXCEPT ![root] = x.f]
      /\ injectedProjects' = x.inj
      /\ call' = [op |-> "inject", root |-> root,
                  again |-> call.op = "inject" /\ call.root = root,
                  f |-> fs[root], inj |-> injectedProjects]
      /\ UNCHANGED notFiles

\* a call of GodotRunner.cleanupBridgeAutoload(root)
CleanupCall(root) ==
  LET x == cleanupBridgeAutoload(injectedProjects, fs[root], root)
  IN  /\ fs' = [fs EXCEPT ![root] = x.f]
      /\ injectedProjects' = x.inj
      /\ call' = [op |-> "cleanup", root |-> root,
                  again |-> call.op = "cleanup" /\ call.root = root,
                  f |-> fs[root], inj |-> injectedProjects]
      /\ UNCHANGED notFiles

InjectNext ==
  \/ \E root \in Roots : InjectCall(root)
  \/ \E root \in Roots : CleanupCall(root)

SpecInject == InjectInit /\ [][InjectNext]_vars

(***************************************************************************)
(* Properties of the injection specification                               *)
(***************************************************************************)
\* C6: a second injection into a root right after the first leaves the files
\* of the root and injectedProjects as the first left them: one registration
\* entry, the bridge script, the root in injectedProjects.
C6_InjectTwice ==
  (call.op = "inject" /\ call.again)
  => /\ fs[call.root] = call.f
     /\ injectedProjects = call.inj
     /\ Count(fs[call.root].godot, "ENTRY") = 1
     /\ fs[call.root].bridge
     /\ call.root \in injectedProjects

\* the bridge was injected twice in a row into a configuration that did not
\* register it
C6_Witness ==
  /\ call.op = "inject" /\ call.again
  /\ ~Includes(orig[call.root].godot, "ENTRY")

\* no trace of an injection: no entry, no script, not in injectedProjects
NeverInjected(f, inj, root) ==
  /\ ~Includes(f.godot, "ENTRY")
  /\ ~f.bridge
  /\ ~f.uid
  /\ root \notin inj

\* C7: cleanupBridgeAutoload on a root without any trace of an injection
\* changes neither the files of the root nor injectedProjects.
C7_CleanupWithoutInjection ==
  (call.op = "cleanup" /\ NeverInjected(call.f, call.inj, call.root))
  => /\ fs[call.root] = call.f
     /\ injectedProjects = call.inj

\* the cleanup ran on such a root, whose project.godot does not end in
\* exactly one line feed
C7_Witness ==
  /\ call.op = "cleanup" /\ NeverInjected(call.f, call.inj, call.root)
  /\ call.f.godot # trimEnd(call.f.godot) \o <<"NL">>

(***************************************************************************)
(* Embedded listener: mcp_bridge.gd                                        *)
(***************************************************************************)
\* key names OS.find_keycode_from_string resolves
KnownKeys == {"A"}

\* the numbers of a set in ascending order
RECURSIVE Ascending(_)
Ascending(S) ==
  IF S = {} THEN <<>>
  ELSE LET m == CHOOSE x \in S : \A y \in S : x <= y
       IN  <<m>> \o Ascending(S \ {m})

\* Node.get_children()
get_children(t, n) == Ascending({c \in 1..Len(t) : t[c].parent = n})

\* the classes a class inherits from, itself included
Ancestry(class) ==
  CASE class = "Button" -> {"Button", "BaseButton", "Control"}
    [] OTHER -> {class, "Control"}

\* Object.is_class()
is_class(t, n, class) == class \in Ancestry(t[n].class)

\* the names from the root window down to node n
RECURSIVE get_path(_, _)
get_path(t, n) ==
  IF n = 0 THEN <<"root">> ELSE Append(get_path(t, t[n].parent), t[n].name)

\* CanvasItem.is_visible_in_tree(): the node and the canvas items above it
\* are visible; a parent that is no canvas item ends the chain
RECURSIVE is_visible_in_tree(_, _)
is_visible_in_tree(t, n) ==
  /\ t[n].visible
  /\ \/ t[n].parent = 0
     \/ ~t[t[n].parent].control
     \/ is_visible_in_tree(t, t[n].parent)

\* an identifier string: the names between its slashes, and whether it
\* begins with a slash
Identifier(abs, names) == [abs |-> abs, names |-> names]
NoElement == Identifier(FALSE, <<>>)

\* root.get_node_or_null(NodePath(identifier)): 0 stands for null
get_node_or_null(t, identifier) ==
  LET want == IF identifier.abs THEN identifier.names
              ELSE <<"root">> \o identifier.names
      hits == {n \in 1..Len(t) : get_path(t, n) = want}
  IN  IF identifier.names = <<>> \/ hits = {} THEN 0
      ELSE CHOOSE n \in hits : \A m \in hits : n <= m

\* depth of a node below the root window
RECURSIVE Depth(_, _)
Depth(t, n) == IF n = 0 THEN 0 ELSE 1 + Depth(t, t[n].parent)

\* a search that puts the children of a node in front of the queue
RECURSIVE Bfs_depth_first(_, _, _)
Bfs_depth_first(t, queue, name) ==
  IF queue = <<>> THEN 0
  ELSE LET current == Head(queue)
       IN  IF current # 0 /\ t[current].control /\ t[current].name = name
           THEN current
           ELSE Bfs_depth_first(t, get_children(t, current) \o Tail(queue),
                                name)

\* the queue loop: the first Control with the name that leaves the queue,
\* the children of every other node joining the queue at its end
RECURSIVE Bfs(_, _, _)
Bfs(t, queue, name) ==
  IF queue = <<>> THEN 0
  ELSE LET current == Head(queue)
       IN  IF current # 0 /\ t[current].control /\ t[current].name = name
           THEN current
           ELSE Bfs(t, Tail(queue) \o get_children(t, current), name)

\* a lookup that falls back to the first Control of the tree
_find_control_by_identifier_first(t, identifier) ==
  CHOOSE n \in 1..Len(t) : t[n].control

\* as a path, then breadth first by name among the Controls: 0 for null. A
\* node name holds no slash, so only an identifier of one name without a
\* leading slash can equal one
_find_control_by_identifier(t, identifier) ==
  LET node == get_node_or_null(t, identifier)
  IN  IF node # 0 /\ t[node].control THEN node
      ELSE IF identifier.abs \/ Len(identifier.names) # 1 THEN 0
      ELSE Bfs(t, <<0>>, identifier.names[1])

\* an action object with none of the fields the handlers read: each field
\* holds what action.get() returns for it by default (hasPressed: the
\* object has a field "pressed"; msNum: ms is a number)
NoAction ==
  [type |-> "", key |-> "", ms |-> 0, msNum |-> TRUE, element |-> NoElement,
   button |-> "left", hasPressed |-> FALSE, pressed |-> TRUE, x |-> 0,
   action |-> ""]

\* input actions: a key press, a wait of ms milliseconds, a click on the
\* element with an identifier
Key(name) == [NoAction EXCEPT !.type = "key", !.key = name]
Wait(ms) == [NoAction EXCEPT !.type = "wait", !.ms = ms]
Click(names) ==
  [NoAction EXCEPT !.type = "click_element",
                   !.element = Identifier(FALSE, names)]
\* a mouse button at x, with a field "pressed" or without; a mouse motion
\* to x; a named input action
MouseButton(button, hasPressed, pressed, x) ==
  [NoAction EXCEPT !.type = "mouse_button", !.button = button,
                   !.hasPressed = hasPressed, !.pressed = pressed, !.x = x]
MouseMotion(x) == [NoAction EXCEPT !.type = "mouse_motion", !.x = x]
Act(name, pressed) ==
  [NoAction EXCEPT !.type = "action", !.action = name, !.hasPressed = TRUE,
                   !.pressed = pressed]
InputActions ==
  {Key("A"), Key("BOGUS_KEY"), Wait(100), Wait(0), Click(<<"Ghost">>)}

Batches == UNION {[1..m -> InputActions] : m \in 1..MaxBatch}

\* datagrams by their form: "json" (an object with a command), "text" (not
\* beginning with a brace), "malformed" (a brace and no JSON), "nonobject"
\* (JSON that is no object)
Datagram(form, command, isArray, actions, filter, source) ==
  [form |-> form, command |-> command, isArray |-> isArray,
   actions |-> actions, type_filter |-> filter, source |-> source]
Input(actions) == Datagram("json", "input", TRUE, actions, "", "")
Command(command) == Datagram("json", command, FALSE, <<>>, "", "")
\* script sources: none, one that does not compile, one without execute,
\* one that runs, one with an _init and a method execute_later
Sources == {"", "syntax", "noexecute", "ok", "init_noexecute"}
\* GDScript.reload() returns OK
Compiles(source) == source \notin {"", "syntax"}
\* the script has an _init, which GDScript.new() runs
HasInit(source) == source = "init_noexecute"
\* instance.has_method("execute")
has_method_execute(source) == source = "ok"
Datagrams ==
  {Input(b) : b \in Batches \cup {<<>>}}
    \cup {Datagram("json", "input", FALSE, <<>>, "", "")}
    \cup {Command(c) : c \in {"ping", "screenshot", "bogus"}}
    \cup {Datagram("json", "get_ui_elements", FALSE, <<>>, f, "") :
            f \in {"", "Button"}}
    \cup {Datagram("json", "run_script", FALSE, <<>>, "", s) : s \in Sources}
    \cup {Datagram("text", c, FALSE, <<>>, "", "") :
            c \in {"screenshot", "ping", "hello"}}
    \cup {Datagram("malformed", "", FALSE, <<>>, "", ""),
          Datagram("nonobject", "", FALSE, <<>>, "", "")}

\* _inject_key: "" on success, else what is wrong
_inject_key(action) ==
  IF action.key = "" THEN "key name is required"
  ELSE IF action.key \notin KnownKeys THEN "unrecognized key name"
  ELSE ""

\* the button names the injectors know
Buttons == {"left", "right", "middle"}

\* _inject_mouse_button: "" on success
_inject_mouse_button(action) ==
  IF action.button \notin Buttons THEN "unknown button" ELSE ""

\* _inject_action: "" on success
_inject_action(action) ==
  IF action.action = "" THEN "action name is required" ELSE ""

\* _inject_click_element: "" on success
_inject_click_element(t, action) ==
  IF action.element.names = <<>> THEN "element identifier is required"
  ELSE LET target == _find_control_by_identifier(t, action.element)
       IN  IF target = 0 THEN "Could not find UI element"
           ELSE IF ~is_visible_in_tree(t, target)
           THEN "UI element is not visible"
           ELSE IF action.button \notin Buttons THEN "unknown button"
           ELSE ""

\* what makes one action fail, "" if nothing does
ActionError(t, action) ==
  CASE action.type = "key" -> _inject_key(action)
    [] action.type = "click_element" -> _inject_click_element(t, action)
    [] action.type = "wait" ->
         IF action.msNum THEN "" ELSE "ms must be a number"
    [] action.type = "mouse_motion" -> ""
    [] action.type = "mouse_button" -> _inject_mouse_button(action)
    [] action.type = "action" -> _inject_action(action)
    [] OTHER -> "unknown type"

\* what the error message quotes of the action
Quoted(action) ==
  IF action.type = "click_element" THEN action.element.names[1]
  ELSE action.key

\* the action suspends the batch: a wait of more than 0 ms
Awaits(action) == action.type = "wait" /\ action.msNum /\ action.ms > 0

\* input events an action that succeeds hands to Input.parse_input_event
\* (for a named action: the one Input.action_press or action_release)
Events(action) ==
  CASE action.type \in {"key", "mouse_motion", "action"} -> 1
    [] action.type = "click_element" -> 2
    [] action.type = "mouse_button" -> IF action.hasPressed THEN 1 ELSE 2
    [] OTHER -> 0

\* a synthetic input event: its kind, the key, button or action it is
\* about, its pressed state and its position
Event(kind, code, pressed, at) ==
  [kind |-> kind, code |-> code, pressed |-> pressed, at |-> at]

\* an injector that sends the press before it has tested its arguments
Parsed_eager(t, action) ==
  CASE action.type = "key" ->
         IF _inject_key(action) # "" THEN <<>>
         ELSE <<Event("key", action.key, action.pressed, 0)>>
    [] action.type = "mouse_button" ->
         IF action.hasPressed
         THEN <<Event("mouse_button", action.button, action.pressed,
                      action.x)>>
         ELSE <<Event("mouse_button", action.button, TRUE, action.x)>>
                \o (IF _inject_mouse_button(action) # "" THEN <<>>
                    ELSE <<Event("mouse_button", action.button, FALSE,
                                 action.x)>>)
    [] OTHER -> <<>>

\* what the injector of an action has handed to Input.parse_input_event, in
\* order, when it returns: nothing before its last test of the arguments
Parsed(t, action) ==
  CASE action.type = "key" ->
         IF _inject_key(action) # "" THEN <<>>
         ELSE <<Event("key", action.key, action.pressed, 0)>>
    [] action.type = "mouse_button" ->
         IF _inject_mouse_button(action) # "" THEN <<>>
         ELSE IF action.hasPressed
         THEN <<Event("mouse_button", action.button, action.pressed,
                      action.x)>>
         ELSE <<Event("mouse_button", action.button, TRUE, action.x),
                Event("mouse_button", action.button, FALSE, action.x)>>
    [] action.type = "mouse_motion" ->
         <<Event("mouse_motion", "", FALSE, action.x)>>
    [] action.type = "action" ->
         IF _inject_action(action) # "" THEN <<>>
         ELSE <<Event("action", action.action, action.pressed, 0)>>
    [] action.type = "click_element" ->
         IF _inject_click_element(t, action) # "" THEN <<>>
         ELSE LET center ==
                    100 + _find_control_by_identifier(t, action.element)
              IN  <<Event("mouse_button", action.button, TRUE, center),
                    Event("mouse_button", action.button, FALSE, center)>>
    [] OTHER -> <<>>

\* a failure that counts the failing action as processed
Failed_counting(i, processed, emitted, msg, arg) ==
  [state |-> "done", i |-> i, processed |-> processed + 1,
   emitted |-> emitted,
   error |-> [msg |-> msg, idx |-> processed + 1, arg |-> arg]]

\* error_msg is set and the loop left: the error names the index processed
Failed(i, processed, emitted, msg, arg) ==
  [state |-> "done", i |-> i, processed |-> processed, emitted |-> emitted,
   error |-> [msg |-> msg, idx |-> processed, arg |-> arg]]

\* a loop that goes on with the next action when one fails
RECURSIVE Loop_continuing(_, _, _, _, _)
Loop_continuing(t, actions, i, processed, emitted) ==
  IF i > Len(actions)
  THEN [state |-> "done", i |-> i, processed |-> processed,
        emitted |-> emitted, error |-> NoError, events |-> <<>>]
  ELSE LET action == actions[i]
       IN  IF ActionError(t, action) = "" /\ Awaits(action)
           THEN [state |-> "await", i |-> i, processed |-> processed,
                 emitted |-> emitted, error |-> NoError, events |-> <<>>]
           ELSE LET r == Loop_continuing(t, actions, i + 1, processed + 1,
                                         emitted + Len(Parsed(t, action)))
                IN  [r EXCEPT !.events = Parsed(t, action) \o @]

\* the loop of _handle_input from its i-th iteration on, up to the next
\* await or to its end; `events`: what these iterations handed to
\* Input.parse_input_event
RECURSIVE Loop(_, _, _, _, _)
Loop(t, actions, i, processed, emitted) ==
  IF i > Len(actions)
  THEN [state |-> "done", i |-> i, processed |-> processed,
        emitted |-> emitted, error |-> NoError, events |-> <<>>]
  ELSE LET action == actions[i]
       IN  IF ActionError(t, action) # ""
           THEN LET f == Failed(i, processed, emitted,
                                ActionError(t, action), Quoted(action))
                IN  [state |-> f.state, i |-> f.i, processed |-> f.processed,
                     emitted |-> f.emitted, error |-> f.error,
                     events |-> Parsed(t, action)]
           ELSE IF Awaits(action)
           THEN [state |-> "await", i |-> i, processed |-> processed,
                 emitted |-> emitted, error |-> NoError, events |-> <<>>]
           ELSE LET r == Loop(t, actions, i + 1, processed + 1,
                              emitted + Events(action))
                IN  [r EXCEPT !.events = Parsed(t, action) \o @]

\* a flag that is never seen set
InProgress_never == FALSE

\* the single-flight check of _handle_json_command
InProgress == _is_processing_input

\* what the listener leaves alone
notListener == <<svars, call, tree, xvars>>

\* _send_response: one packet to the peer of the datagram
_send_response(peer, reply) ==
  /\ lastReply' = reply
  /\ replies' = [replies EXCEPT ![peer] = @ + 1]

\* a reply to datagram d: its error or none, its counters, its elements;
\* `ran`: the functions of a script that ran before the reply
Reply(peer, d, error, processed, emitted, elements) ==
  [peer |-> peer, cmd |-> d.command, batch |-> d.actions,
   busy |-> _is_processing_input, error |-> error,
   processed |-> processed, emitted |-> emitted, elements |-> elements,
   ran |-> <<>>, events |-> <<>>]

\* a command that awaits: its coroutine waits for a timer or for the frame
Coroutine(peer, cmd, actions, busy, r) ==
  [peer |-> peer, cmd |-> cmd, actions |-> actions, busy |-> busy,
   i |-> r.i, processed |-> r.processed, emitted |-> r.emitted,
   events |-> r.events]

\* an end of the loop that clears the flag only when no action failed
AfterLoop_keeping(peer, actions, busy, r) ==
  IF r.state = "await"
  THEN /\ _is_processing_input' = TRUE
       /\ suspended' = {c \in suspended : c.peer # peer}
                         \cup {Coroutine(peer, "input", actions, busy, r)}
       /\ UNCHANGED <<lastReply, replies>>
  ELSE /\ _is_processing_input' = (r.error # NoError)
       /\ suspended' = {c \in suspended : c.peer # peer}
       /\ _send_response(peer,
            [peer |-> peer, cmd |-> "input", batch |-> actions,
             busy |-> busy, error |-> r.error, processed |-> r.processed,
             emitted |-> r.emitted, elements |-> <<>>, ran |-> <<>>,
             events |-> r.events])

\* the state after the loop of the batch of `peer` stopped with result r
AfterLoop(peer, actions, busy, r) ==
  IF r.state = "await"
  THEN /\ _is_processing_input' = TRUE
       /\ suspended' = {c \in suspended : c.peer # peer}
                         \cup {Coroutine(peer, "input", actions, busy, r)}
       /\ UNCHANGED <<lastReply, replies>>
  ELSE /\ _is_processing_input' = FALSE
       /\ suspended' = {c \in suspended : c.peer # peer}
       /\ _send_response(peer,
            [peer |-> peer, cmd |-> "input", batch |-> actions,
             busy |-> busy, error |-> r.error, processed |-> r.processed,
             emitted |-> r.emitted, elements |-> <<>>, ran |-> <<>>,
             events |-> r.events])

\* _handle_input up to its first await or its reply
_handle_input(peer, actions, busy) ==
  AfterLoop(peer, actions, busy, Loop(tree, actions, 1, 0, 0))

\* an error that is not reported to the peer
ErrorReply_dropped(peer, d, msg) ==
  UNCHANGED <<lastReply, replies, _is_processing_input, suspended>>

\* a reply that carries only an error
ErrorReply(peer, d, msg) ==
  /\ _send_response(peer,
       Reply(peer, d, [msg |-> msg, idx |-> -1, arg |-> ""], -1, 0, <<>>))
  /\ UNCHANGED <<_is_processing_input, suspended>>

\* a reply without an error: {"status": "pong"}, {"elements": ...},
\* {"success": true, "result": ...}
PlainReply(peer, d, elements) ==
  /\ _send_response(peer, Reply(peer, d, NoError, -1, 0, elements))
  /\ UNCHANGED <<_is_processing_input, suspended>>

\* _handle_screenshot up to its await of RenderingServer.frame_post_draw
_handle_screenshot(peer) ==
  /\ suspended' = suspended \cup
       {Coroutine(peer, "screenshot", <<>>, _is_processing_input,
                  [i |-> 0, processed |-> -1, emitted |-> 0,
                   events |-> <<>>])}
  /\ UNCHANGED <<_is_processing_input, lastReply, replies>>

\* a walk that does not look below a Control the filter excludes
RECURSIVE _collect_control_nodes_pruning(_, _, _, _)
_collect_control_nodes_pruning(t, node, visible_only, type_filter) ==
  LET below(kids) ==
        LET RECURSIVE Each(_)
            Each(k) ==
              IF k = <<>> THEN <<>>
              ELSE _collect_control_nodes_pruning(t, Head(k), visible_only,
                                                  type_filter)
                     \o Each(Tail(k))
        IN  Each(kids)
  IN  IF node # 0 /\ t[node].control
      THEN IF visible_only /\ ~is_visible_in_tree(t, node) THEN <<>>
           ELSE IF type_filter # "" /\ ~is_class(t, node, type_filter)
           THEN <<>>
           ELSE <<node>> \o below(get_children(t, node))
      ELSE below(get_children(t, node))

\* _collect_control_nodes: the elements appended for `node` and the nodes
\* below it, in the order they are appended
RECURSIVE _collect_control_nodes(_, _, _, _)
_collect_control_nodes(t, node, visible_only, type_filter) ==
  LET below(kids) ==
        LET RECURSIVE Each(_)
            Each(k) ==
              IF k = <<>> THEN <<>>
              ELSE _collect_control_nodes(t, Head(k), visible_only,
                                          type_filter)
                     \o Each(Tail(k))
        IN  Each(kids)
  IN  IF node # 0 /\ t[node].control
      THEN IF visible_only /\ ~is_visible_in_tree(t, node) THEN <<>>
           ELSE IF type_filter # "" /\ ~is_class(t, node, type_filter)
           THEN below(get_children(t, node))
           ELSE <<node>> \o below(get_children(t, node))
      ELSE below(get_children(t, node))

\* _handle_get_ui_elements: the walk from the root window
_handle_get_ui_elements(peer, d, visible_only) ==
  PlainReply(peer, d,
             _collect_control_nodes(tree, 0, visible_only, d.type_filter))

\* script.new(): the functions of the script that instantiating it runs
Instantiated(source) == IF HasInit(source) THEN <<"_init">> ELSE <<>>

\* _handle_run_script: compile, instantiate, test for execute, call it
_handle_run_script(peer, d) ==
  CASE d.source = "" -> ErrorReply(peer, d, "No script source provided")
    [] ~Compiles(d.source) ->
         ErrorReply(peer, d, "Script compilation failed")
    [] ~has_method_execute(d.source) ->
         /\ _send_response(peer,
              [Reply(peer, d,
                     [msg |-> "Script must define func execute",
                      idx |-> -1, arg |-> ""], -1, 0, <<>>) EXCEPT
                 !.ran = Instantiated(d.source)])
         /\ UNCHANGED <<_is_processing_input, suspended>>
    [] OTHER ->
         /\ _send_response(peer,
              [Reply(peer, d, NoError, -1, 0, <<>>) EXCEPT
                 !.ran = Instantiated(d.source) \o <<"execute">>])
         /\ UNCHANGED <<_is_processing_input, suspended>>

\* a dispatch that hands every input command to _handle_input
_handle_json_command_unchecked(peer, d) ==
  CASE d.form = "malformed" -> ErrorReply(peer, d, "Invalid JSON")
    [] d.form = "nonobject" -> ErrorReply(peer, d, "Expected JSON object")
    [] d.command = "input" ->
         IF InProgress /\ d.actions # <<>>
         THEN ErrorReply(peer, d, "Input sequence already in progress")
         ELSE _handle_input(peer, d.actions, _is_processing_input)
    [] d.command = "get_ui_elements" ->
         _handle_get_ui_elements(peer, d, TRUE)
    [] d.command = "run_script" -> _handle_run_script(peer, d)
    [] d.command = "screenshot" -> _handle_screenshot(peer)
    [] d.command = "ping" -> PlainReply(peer, d, <<>>)
    [] OTHER -> ErrorReply(peer, d, "Unknown command")

\* _handle_json_command: parse, then dispatch on the command
_handle_json_command(peer, d) ==
  CASE d.form = "malformed" -> ErrorReply(peer, d, "Invalid JSON")
    [] d.form = "nonobject" -> ErrorReply(peer, d, "Expected JSON object")
    [] d.command = "input" ->
         IF ~d.isArray THEN ErrorReply(peer, d, "actions must be an array")
         ELSE IF d.actions = <<>>
         THEN ErrorReply(peer, d, "actions array is empty")
         ELSE IF InProgress
         THEN ErrorReply(peer, d, "Input sequence already in progress")
         ELSE _handle_input(peer, d.actions, _is_processing_input)
    [] d.command = "get_ui_elements" ->
         _handle_get_ui_elements(peer, d, TRUE)
    [] d.command = "run_script" -> _handle_run_script(peer, d)
    [] d.command = "screenshot" -> _handle_screenshot(peer)
    [] d.command = "ping" -> PlainReply(peer, d, <<>>)
    [] OTHER -> ErrorReply(peer, d, "Unknown command")

\* the datagram of one frame: a command object, or a legacy plain text
OnDatagram(peer, d) ==
  IF d.form # "text" THEN _handle_json_command(peer, d)
  ELSE CASE d.command = "screenshot" -> _handle_screenshot(peer)
         [] d.command = "ping" -> PlainReply(peer, d, <<>>)
         [] OTHER -> ErrorReply(peer, d, "Unknown command")

\* a listener whose flag guards every command
_process_single_flight(d) ==
  /\ received < MaxDatagrams
  /\ received' = received + 1
  /\ IF _is_processing_input
     THEN ErrorReply(received + 1, d, "Input sequence already in progress")
     ELSE OnDatagram(received + 1, d)
  /\ UNCHANGED notListener

\* _process: one frame takes one datagram from a new peer
_process(d) ==
  /\ received < MaxDatagrams
  /\ received' = received + 1
  /\ OnDatagram(received + 1, d)
  /\ UNCHANGED notListener

\* the timer of a wait fires: the batch goes on behind its await
timeout(c) ==
  /\ c \in suspended
  /\ c.cmd = "input"
  /\ LET r == Loop(tree, c.actions, c.i + 1, c.processed + 1, c.emitted)
     IN  AfterLoop(c.peer, c.actions, c.busy,
                   [r EXCEPT !.events = c.events \o @])
  /\ UNCHANGED received
  /\ UNCHANGED notListener

\* the frame is drawn: a screenshot goes on behind its await and replies
\* with the path of the image, or with what kept it from saving one
frame_post_draw(c, saved) ==
  /\ c \in suspended
  /\ c.cmd = "screenshot"
  /\ suspended' = suspended \ {c}
  /\ _send_response(c.peer,
       [peer |-> c.peer, cmd |-> "screenshot", batch |-> <<>>,
        busy |-> c.busy,
        error |-> IF saved THEN NoError
                  ELSE [msg |-> "Failed to save screenshot", idx |-> -1,
                        arg |-> ""],
        processed |-> -1, emitted |-> 0, elements |-> <<>>, ran |-> <<>>,
        events |-> <<>>])
  /\ UNCHANGED <<_is_processing_input, received>>
  /\ UNCHANGED notListener

ListenerInit ==
  /\ fs = [r \in Roots |-> FreshProject]
  /\ orig = fs
  /\ SessionIdle
  /\ call = NoCall
  /\ ListenerIdle
  /\ tree = DemoTree
  /\ readOnly = {}

\* the walk of get_ui_elements on every tree of up to MaxNodes nodes
Classes == {"Button", "Label"}
Filters == {"", "Button", "BaseButton", "Label"}
NodesUnder(parents) ==
  {TreeNode("Node", p, FALSE, "Node", TRUE) : p \in parents}
    \cup {TreeNode("Ctl", p, TRUE, c, v) :
            p \in parents, c \in Classes, v \in BOOLEAN}
Trees ==
  UNION {{t \in [1..m -> NodesUnder(0..(m - 1))] :
            \A n \in 1..m : t[n].parent < n} : m \in 1..MaxNodes}

\* a get_ui_elements command with its two parameters; the handler reads the
\* tree and writes nothing but its reply, so one command per tree covers it
GetUiElements(visible_only, type_filter) ==
  /\ received = 0
  /\ received' = received + 1
  /\ _handle_get_ui_elements(received + 1,
        Datagram("json", "get_ui_elements", FALSE, <<>>, type_filter, ""),
        visible_only)
  /\ UNCHANGED notListener

WalkerInit ==
  /\ fs = [r \in Roots |-> FreshProject]
  /\ orig = fs
  /\ SessionIdle
  /\ call = NoCall
  /\ ListenerIdle
  /\ tree \in Trees
  /\ readOnly = {}

WalkerNext ==
  \E visible_only \in BOOLEAN, type_filter \in Filters :
    GetUiElements(visible_only, type_filter)

SpecWalker == WalkerInit /\ [][WalkerNext]_vars

(***************************************************************************)
(* Batch specification: one input batch of every kind of action, taken by  *)
(* an idle listener and run through its waits                              *)
(***************************************************************************)
\* a wait whose ms is no number, and an action of no known type
WaitText == [Wait(0) EXCEPT !.msNum = FALSE]
Unknown == [NoAction EXCEPT !.type = "swipe"]

BatchActions ==
  InputActions \cup
    {Click(<<"Ok">>), Click(<<"Hint">>),
     [Click(<<"Ok">>) EXCEPT !.button = "side"],
     MouseButton("left", FALSE, TRUE, 3), MouseButton("right", TRUE, FALSE, 3),
     MouseButton("left", TRUE, TRUE, 0), MouseButton("side", FALSE, TRUE, 3),
     MouseButton("side", TRUE, TRUE, 3), MouseMotion(3),
     Act("jump", TRUE), Act("jump", FALSE), Act("", TRUE),
     Wait(-5), WaitText, Unknown}

\* the listener takes the one batch
Submit(b) ==
  /\ received = 0
  /\ _process(Input(b))

BatchNext ==
  \/ \E b \in UNION {[1..m -> BatchActions] : m \in 1..MaxBatch} : Submit(b)
  \/ \E c \in suspended : timeout(c)

SpecBatch == ListenerInit /\ [][BatchNext]_vars

(***************************************************************************)
(* Resolver specification: one click on an element, by every kind of       *)
(* identifier, on every tree of Controls and plain nodes whose siblings    *)
(* have different names, as the engine keeps them                          *)
(***************************************************************************)
Names == {"a", "b"}
ResolveNodes(parents) ==
  {TreeNode(name, p, c, IF c THEN "Button" ELSE "Node", TRUE) :
     name \in Names, p \in parents, c \in BOOLEAN}
ResolveTrees ==
  UNION {{t \in [1..m -> ResolveNodes(0..(m - 1))] :
            /\ \A n \in 1..m : t[n].parent < n
            /\ \A n, k \in 1..m :
                 (n # k /\ t[n].parent = t[k].parent)
                   => t[n].name # t[k].name} : m \in 1..(MaxNodes + 1)}

\* identifiers: one name, relative paths, absolute paths
Identifiers ==
  {Identifier(FALSE, <<"a">>), Identifier(FALSE, <<"b">>),
   Identifier(FALSE, <<"a", "b">>), Identifier(FALSE, <<"b", "a">>),
   Identifier(TRUE, <<"root", "a">>), Identifier(TRUE, <<"root", "b", "a">>),
   Identifier(TRUE, <<"a">>)}

ResolveInit ==
  /\ fs = [r \in Roots |-> FreshProject]
  /\ orig = fs
  /\ SessionIdle
  /\ call = NoCall
  /\ ListenerIdle
  /\ tree \in ResolveTrees
  /\ readOnly = {}

\* a batch of one click on the element
ClickOn(identifier) ==
  Submit(<<[Click(identifier.names) EXCEPT !.element = identifier]>>)

ResolveNext == \E identifier \in Identifiers : ClickOn(identifier)

SpecResolve == ResolveInit /\ [][ResolveNext]_vars

ListenerNext ==
  \/ \E d \in Datagrams : _process(d)
  \/ \E c \in suspended : timeout(c)
  \/ \E c \in suspended, saved \in BOOLEAN : frame_post_draw(c, saved)

SpecListener == ListenerInit /\ [][ListenerNext]_vars

(***************************************************************************)
(* Rounds: input batches one after the other, each taken in some frame,    *)
(* while the engine runs                                                   *)
(***************************************************************************)
\* batches of a wait, a key and a key that fails
RoundBatches ==
  UNION {[1..m -> {Wait(100), Key("A"), Key("BOGUS_KEY")}] :
           m \in 1..MaxBatch}

RoundsNext ==
  \/ \E b \in RoundBatches : _process(Input(b))
  \/ \E c \in suspended : timeout(c)

\* a timer that is waited for fires in the end. This is weak fairness of
\* the timer, with what enables it written as the state predicate it is
TimerAwaited == \E c \in suspended : c.cmd = "input"
Engine ==
  \/ []<>(~TimerAwaited)
  \/ []<><<\E c \in suspended : timeout(c)>>_vars

SpecRounds == ListenerInit /\ [][RoundsNext]_vars /\ Engine

(***************************************************************************)
(* Properties of the listener specification                                *)
(***************************************************************************)
\* the reply of a batch that was executed
Executed == lastReply.cmd = "input" /\ lastReply.processed >= 0

\* positions of the actions of a batch that fail
Failing(batch) ==
  {i \in 1..Len(batch) : ActionError(tree, batch[i]) # ""}

\* C8: the reply of an executed batch carries the batch length as
\* actions_processed when it reports success, and the number of actions
\* before the first failing one when it reports an error.
C8_ActionsProcessed ==
  Executed =>
    IF lastReply.error = NoError
    THEN lastReply.processed = Len(lastReply.batch)
    ELSE /\ Failing(lastReply.batch) # {}
         /\ \A i \in Failing(lastReply.batch) : lastReply.processed <= i - 1
         /\ lastReply.processed + 1 \in Failing(lastReply.batch)

\* a batch failed at its second action after a first one that succeeded
C8_Witness ==
  /\ Executed /\ lastReply.error # NoError
  /\ lastReply.processed = 1 /\ Len(lastReply.batch) = 2

\* the batch [wait 100 ms, key BOGUS_KEY]
BogusBatch == <<Wait(100), Key("BOGUS_KEY")>>

\* C9 as claimed: that batch is answered with an error that names
\* BOGUS_KEY and with actions_processed = 0.
C9_BogusKeyCountsZero ==
  (Executed /\ lastReply.batch = BogusBatch)
  => /\ lastReply.error.msg # "" /\ lastReply.error.arg = "BOGUS_KEY"
     /\ lastReply.processed = 0

\* C9 as amended: that batch is answered with an error that names
\* BOGUS_KEY and with actions_processed = 1, the wait before it.
C9_BogusKeyCountsOne ==
  (Executed /\ lastReply.batch = BogusBatch)
  => /\ lastReply.error.msg # "" /\ lastReply.error.arg = "BOGUS_KEY"
     /\ lastReply.processed = 1

\* the reply to that batch was sent
C9_Witness == Executed /\ lastReply.batch = BogusBatch

\* no two batches are in flight at once
OneBatchInFlight ==
  Cardinality({c \in suspended : c.cmd = "input"}) <= 1

\* C10 as claimed: an input command taken while a batch is in flight is
\* answered with "already in progress" and none of its actions runs; no two
\* batches are in flight at once.
C10_SecondBatchRejected ==
  /\ OneBatchInFlight
  /\ (lastReply.cmd = "input" /\ lastReply.busy)
     => /\ lastReply.error.msg = "Input sequence already in progress"
        /\ lastReply.processed = -1 /\ lastReply.emitted = 0

\* C10 as amended: an input command with a non-empty array of actions taken
\* while a batch is in flight is answered with "already in progress" and
\* none of its actions runs; no two batches are in flight at once.
C10_SecondNonEmptyBatchRejected ==
  /\ OneBatchInFlight
  /\ (lastReply.cmd = "input" /\ lastReply.busy /\ lastReply.batch # <<>>)
     => /\ lastReply.error.msg = "Input sequence already in progress"
        /\ lastReply.processed = -1 /\ lastReply.emitted = 0

\* a batch was rejected while another one waits in its wait action
C10_Witness ==
  /\ lastReply.cmd = "input" /\ lastReply.busy /\ lastReply.batch # <<>>
  /\ \E c \in suspended : c.cmd = "input"

\* the batches in flight
InputsInFlight == {c \in suspended : c.cmd = "input"}

\* C11 as claimed: a datagram is taken only when no command is suspended,
\* and at most one command is in flight at any time.
C11_RunsToCompletion ==
  /\ [](Cardinality(suspended) <= 1)
  /\ [][received' # received => suspended = {}]_vars

\* C11 as amended: only an input batch in a wait and a screenshot before
\* the frame is drawn are ever suspended, and they do not keep the listener
\* from taking datagrams; at most one of the commands in flight is an
\* input batch, and the flag is set exactly while one is.
C11_OneBatchAmongCommands ==
  /\ \A c \in suspended : c.cmd \in {"input", "screenshot"}
  /\ Cardinality(InputsInFlight) <= 1
  /\ _is_processing_input <=> InputsInFlight # {}

\* a batch and a screenshot are in flight together
C11_Witness ==
  /\ Cardinality(suspended) >= 2
  /\ InputsInFlight # {}

NonInputCommands == {"ping", "screenshot", "get_ui_elements", "run_script"}

Matches(t, n, identifier) ==
  \/ get_path(t, n) = identifier.names
  \/ get_path(t, n) = <<"root">> \o identifier.names
  \/ identifier.names = <<t[n].name>>

\* the clicks of a batch on an element that is not in the tree
MissingClicks(batch) ==
  {i \in 1..Len(batch) :
     /\ batch[i].type = "click_element"
     /\ \A n \in 1..Len(tree) : ~Matches(tree, n, batch[i].element)}

\* events of the actions of a batch before its i-th
RECURSIVE EventsBefore(_, _)
EventsBefore(batch, i) ==
  IF i <= 1 THEN 0
  ELSE EventsBefore(batch, i - 1) + Events(batch[i - 1])

\* C19: a batch never gets past a click on an element that is not in the
\* tree: it fails there with "Could not find UI element", and no event of
\* that click is emitted.
C19_MissingElementFails ==
  Executed =>
    \A i \in MissingClicks(lastReply.batch) :
      /\ lastReply.processed <= i - 1
      /\ lastReply.processed = i - 1
         => /\ lastReply.error.msg = "Could not find UI element"
            /\ lastReply.error.arg = "Ghost"
            /\ lastReply.emitted = EventsBefore(lastReply.batch, i)

\* a batch failed at such a click after an action that emitted events
C19_Witness ==
  /\ Executed /\ lastReply.processed = 1 /\ lastReply.emitted > 0
  /\ 2 \in MissingClicks(lastReply.batch)

\* the elements of a sequence that are of a class, in their order
RECURSIVE Keep(_, _, _)
Keep(t, elements, class) ==
  IF elements = <<>> THEN <<>>
  ELSE (IF is_class(t, Head(elements), class) THEN <<Head(elements)>>
        ELSE <<>>) \o Keep(t, Tail(elements), class)

\* C20: with a type filter the walk lists exactly the nodes the walk
\* without a filter lists that are of the class, in the same order: a node
\* is never left out because a node above it is not of the class.
C20_FilterKeepsDescendants ==
  [][\A visible_only \in BOOLEAN, type_filter \in Filters \ {""} :
       GetUiElements(visible_only, type_filter)
       => lastReply'.elements =
            Keep(tree, _collect_control_nodes(tree, 0, visible_only, ""),
                 type_filter)]_vars

\* a node is listed whose parent is a Control that is not listed
C20_Witness ==
  /\ lastReply.cmd = "get_ui_elements"
  /\ \E k \in 1..Len(lastReply.elements) :
        LET above == tree[lastReply.elements[k]].parent
        IN  /\ above # 0
            /\ tree[above].control
            /\ \A j \in 1..Len(lastReply.elements) :
                  lastReply.elements[j] # above

SendsDatagram ==
  /\ \/ handleTakeScreenshot
     \/ \E argsOk \in BOOLEAN : handleSimulateInput(argsOk)
     \/ handleGetUiElements
     \/ \E argsOk \in BOOLEAN : handleRunScript(argsOk)
  /\ lastOp'.ok

\* the tracked process runs and its bridge is bound to the port
TargetReady ==
  /\ activeProcess # NoProc
  /\ procOs[activeProcess] = "running"
  /\ listener[activeProcess] = "ready"

\* C2 as claimed: a runtime tool sends a datagram only when the target
\* process is running and its listener is ready to receive it.
C2_SendsOnlyWhenReady == [][SendsDatagram => TargetReady]_vars

\* C2 as amended: a runtime tool sends a datagram only when a target process
\* is tracked and its exit has not been observed.
C2_SendsOnlyWhenTracked ==
  [][SendsDatagram => (activeProcess # NoProc /\ ~hasExited[activeProcess])]_vars

\* the last tool call sent a datagram at a process whose bridge has not
\* bound its port yet
C2_Witness ==
  /\ lastOp.op \in RuntimeTools /\ lastOp.ok
  /\ activeProcess # NoProc /\ ~hasExited[activeProcess]
  /\ listener[activeProcess] = "booting"

\* the registration entry or the bridge script is in the root
HasListener(r) == Includes(fs[r].godot, "ENTRY") \/ fs[r].bridge

\* C3: a root holds the registration entry or the bridge script only while
\* it is the active project root, and after stop_project no root holds
\* either.
C3_ListenerOnlyInActiveRoot ==
  /\ \A r \in Roots : HasListener(r) => activeProjectPath = r
  /\ lastOp.op = "stop_project" => \A r \in Roots : ~HasListener(r)

C5_StartStopRoundTrip ==
  (lastOp.op = "stop_project" /\ lastOp.ok /\ lastOp.prev # NoRoot)
  => fs[lastOp.prev] = orig[lastOp.prev]

\* C15: the exit callback of a process changes no file, leaves
\* injectedProjects, the tracked process and the active root as they are;
\* the tracked process changes only by run_project and stop_project, and
\* get_debug_output succeeds on a tracked process whose exit was observed.
C15_ExitKeepsSession ==
  /\ [][(\E p \in Pids : OnExit(p))
        => UNCHANGED <<fs, injectedProjects, activeProcess,
                       activeProjectPath>>]_vars
  /\ [][activeProcess' # activeProcess
        => lastOp'.op \in {"run_project", "stop_project"}]_vars
  /\ [][(/\ handleGetDebugOutput
         /\ activeProcess # NoProc
         /\ hasExited[activeProcess]) => lastOp'.ok]_vars

\* the output of a process that has exited was read while its root still
\* holds the listener
C15_Witness ==
  /\ lastOp.op = "get_debug_output" /\ lastOp.ok
  /\ activeProcess # NoProc /\ hasExited[activeProcess]
  /\ activeProjectPath \in Roots /\ HasListener(activeProjectPath)

\* C17: run_project on a root whose injection fails reports no error,
\* spawns a new process, tracks it and makes the root the active one.
C17_InjectionFailureTolerated ==
  [][\A path \in Roots, scene \in {"", "main.tscn"} :
       (handleRunProject(path, scene) /\ path \in readOnly)
       => /\ lastOp'.ok
          /\ activeProcess' # NoProc /\ activeProcess' # activeProcess
          /\ procOs'[activeProcess'] = "running"
          /\ procRoot'[activeProcess'] = path
          /\ activeProjectPath' = path
          /\ fs'[path] = fs[path]]_vars

\* a process runs on a root that could not be injected
C17_Witness ==
  /\ lastOp.op = "run_project" /\ lastOp.ok
  /\ activeProjectPath \in readOnly
  /\ activeProcess # NoProc /\ procRoot[activeProcess] = activeProjectPath
  /\ ~HasListener(activeProjectPath)

\* a configuration error of run_project: no project path, a path argument
\* that is unsafe, a root without project file
ConfigError(path, scene) ==
  \/ path = ""
  \/ ~validatePath(path)
  \/ ~ProjectFileExists(path)
  \/ scene # "" /\ ~validatePath(scene)

\* C18: a run_project call with a configuration error fails and kills,
\* spawns, injects and cleans nothing.
C18_ConfigErrorsRejected ==
  [][\A path \in PathInputs, scene \in SceneInputs :
       (handleRunProject(path, scene) /\ ConfigError(path, scene))
       => /\ ~lastOp'.ok
          /\ UNCHANGED <<fs, injectedProjects, activeProcess,
                         activeProjectPath, procOs, procRoot>>]_vars

(***************************************************************************)
(* Bridge client: GodotRunner.sendCommand                                  *)
(***************************************************************************)
\* a settle that does not look at `settled`
Settle_again(s, how, clears) ==
  [s EXCEPT !.settled = TRUE,
            !.timer = IF clears /\ @ = "armed" THEN "cleared" ELSE @,
            !.closes = @ + 1,
            !.settles = @ + 1,
            !.result = how]

\* the body every handler of sendCommand shares: if not settled, set
\* settled, clear the timer (the timer's own handler does not), close the
\* socket and resolve or reject
Settle(s, how, clears) ==
  IF s.settled THEN s
  ELSE [s EXCEPT !.settled = TRUE,
                 !.timer = IF clears /\ @ = "armed" THEN "cleared" ELSE @,
                 !.closes = @ + 1,
                 !.settles = @ + 1,
                 !.result = how]

\* the first of the settling events of the call
Noted(s, how) == [s EXCEPT !.first = IF @ = "none" THEN how ELSE @]

\* everything sendCommand leaves alone
notSend == <<svars, call, lvars, readOnly, capture>>

\* a call of sendCommand once the call before it is settled: a new socket,
\* the timer armed, the datagram handed to socket.send
sendCommand(command) ==
  /\ send.settled
  /\ send.calls < MaxCalls
  /\ send' = [calls |-> send.calls + 1, command |-> command,
              settled |-> FALSE, settles |-> 0, result |-> "none",
              first |-> "none", closes |-> 0, timer |-> "armed",
              callback |-> "pending", events |-> 0, timeoutMs |-> 10000,
              actions |-> <<>>]
  /\ UNCHANGED notSend

\* a timer that also stops the batch the target is running
OnTimeout_cancelling ==
  /\ send.timer = "armed"
  /\ send' = Settle(Noted([send EXCEPT !.timer = "fired"], "timeout"),
                    "timeout", FALSE)
  /\ _is_processing_input' = FALSE
  /\ suspended' = {}
  /\ UNCHANGED <<svars, call, lastReply, received, replies, tree, readOnly,
                 capture>>

\* the timer of the call fires
OnTimeout ==
  /\ send.timer = "armed"
  /\ send' = Settle(Noted([send EXCEPT !.timer = "fired"], "timeout"),
                    "timeout", FALSE)
  /\ UNCHANGED notSend

\* socket.on('message'): a datagram arrives on the socket of the call
OnMessage ==
  /\ send.calls > 0
  /\ send.events < MaxEvents
  /\ send' = Settle(Noted([send EXCEPT !.events = @ + 1], "reply"),
                    "reply", TRUE)
  /\ UNCHANGED notSend

\* socket.on('error')
OnError ==
  /\ send.calls > 0
  /\ send.events < MaxEvents
  /\ send' = Settle(Noted([send EXCEPT !.events = @ + 1], "error"),
                    "error", TRUE)
  /\ UNCHANGED notSend

\* the callback of socket.send, with an error or without
OnSent(err) ==
  /\ send.callback = "pending"
  /\ send' = IF err
             THEN Settle(Noted([send EXCEPT !.callback = "done"],
                               "send failure"), "send failure", TRUE)
             ELSE [send EXCEPT !.callback = "done"]
  /\ UNCHANGED notSend

SendInit ==
  /\ fs = [r \in Roots |-> FreshProject]
  /\ orig = fs
  /\ SessionIdle
  /\ call = NoCall
  /\ ListenerIdle
  /\ tree = DemoTree
  /\ readOnly = {}

SendNext ==
  \/ \E command \in RuntimeTools : sendCommand(command)
  \/ OnTimeout
  \/ OnMessage
  \/ OnError
  \/ \E err \in BOOLEAN : OnSent(err)

SpecSend == SendInit /\ [][SendNext]_vars

(***************************************************************************)
(* sendCommand and the listener together: input batches and scripts sent   *)
(* one call after the other, each datagram taken by the listener in a      *)
(* later frame, the reply arriving if the socket is still there            *)
(***************************************************************************)
\* the datagrams sendCommand builds for a tool: batches of waits and keys,
\* scripts
Outgoing(command) ==
  CASE command = "simulate_input" ->
         {Input(b) : b \in UNION {[1..m -> {Wait(100), Key("A")}] :
                                    m \in 1..MaxBatch}}
    [] command = "run_script" ->
         {Datagram("json", "run_script", FALSE, <<>>, "", source) :
            source \in {"ok", "init_noexecute"}}
    [] OTHER -> {}

\* the listener takes the datagram of the next call that was sent
Deliver(d) ==
  /\ received < send.calls
  /\ d \in Outgoing(send.command)
  /\ _process(d)

\* the reply to the datagram of the call reaches its socket
Arrives ==
  /\ send.calls \in 1..MaxDatagrams
  /\ replies[send.calls] > 0
  /\ OnMessage

AbandonNext ==
  \/ \E command \in {"simulate_input", "run_script"} : sendCommand(command)
  \/ \E d \in Outgoing(send.command) : Deliver(d)
  \/ \E c \in suspended : timeout(c)
  \/ OnTimeout
  \/ Arrives

SpecAbandon == SendInit /\ [][AbandonNext]_vars

\* C14: a call is settled at most once, by the first of a reply, a socket
\* error, a send failure and the timer; its socket is closed exactly when it
\* is settled, once; the timer never fires on an unsettled call without
\* settling it.
C14_SettlesOnce ==
  /\ send.settles <= 1
  /\ send.closes = send.settles
  /\ send.calls > 0 => (send.settled <=> send.settles = 1)
  /\ send.settled => send.result = send.first
  /\ send.timer = "fired" => send.settled
  /\ (send.timer = "cleared" /\ send.first # "timeout") => send.settled

\* a reply settled the call and more events arrived on its socket
C14_Witness ==
  /\ send.settles = 1 /\ send.result = "reply"
  /\ send.events >= 2 /\ send.callback = "done"

(***************************************************************************)
(* Output capture: the data handlers of a GodotProcess                     *)
(***************************************************************************)
\* what a line of output can be: a text or nothing
Lines == {"line", ""}

\* data.toString().split('\n'): at least one piece
Chunks == UNION {[1..m -> Lines] : m \in 1..MaxChunk}

\* the last n entries of a sequence
Recent(all, n) ==
  IF Len(all) > n THEN SubSeq(all, Len(all) - n + 1, Len(all)) ELSE all

\* a buffer that drops what arrives once it is full
Appended_keeping(buffer, lines) ==
  SubSeq(buffer \o lines, 1,
         IF Len(buffer \o lines) > BufferCap THEN BufferCap
         ELSE Len(buffer \o lines))

\* output.push(...lines); if (output.length > 500) output.splice(0,
\* output.length - 500): BufferCap stands for the 500
Appended(buffer, lines) ==
  LET b == buffer \o lines
  IN  IF Len(b) > BufferCap THEN SubSeq(b, Len(b) - BufferCap + 1, Len(b))
      ELSE b

notCapture == <<svars, call, lvars, readOnly, send>>

CaptureRoom ==
  Len(capture.allOutput) + Len(capture.allErrors) < MaxOutput

\* proc.stdout.on('data')
OnStdout(lines) ==
  /\ CaptureRoom
  /\ capture' = [capture EXCEPT !.output = Appended(@, lines),
                                !.allOutput = @ \o lines]
  /\ UNCHANGED notCapture

\* proc.stderr.on('data')
OnStderr(lines) ==
  /\ CaptureRoom
  /\ capture' = [capture EXCEPT !.errors = Appended(@, lines),
                                !.allErrors = @ \o lines]
  /\ UNCHANGED notCapture

\* proc.on('error'): one entry is pushed to errors and the length is not
\* looked at
OnProcessError ==
  /\ ~capture.failed
  /\ capture' = [capture EXCEPT !.errors = Append(@, "Process error"),
                                !.allErrors = Append(@, "Process error"),
                                !.failed = TRUE]
  /\ UNCHANGED notCapture

CaptureNext ==
  \/ \E lines \in Chunks : OnStdout(lines)
  \/ \E lines \in Chunks : OnStderr(lines)
  \/ OnProcessError

SpecCapture == SendInit /\ [][CaptureNext]_vars

(***************************************************************************)
(* The value serializer.  A Variant is a record with its type `t`: a       *)
(* scalar with its value `v` (a float as its digits), a vector or a color  *)
(* with its components, a Dictionary with the sequence `v` of its entries  *)
(* [k, v] in insertion order, an Array with the sequence of its items, a   *)
(* Node, a Resource, another Object or a value of any other type with the  *)
(* text str() gives for it                                                 *)
(***************************************************************************)
Nil == [t |-> "nil"]
Bool(v) == [t |-> "bool", v |-> v]
Integer(v) == [t |-> "int", v |-> v]
Float(v) == [t |-> "float", v |-> v]
String(v) == [t |-> "string", v |-> v]
Vector2(x, y) == [t |-> "vector2", x |-> x, y |-> y]
Vector3i(x, y, z) == [t |-> "vector3i", x |-> x, y |-> y, z |-> z]
Color(r, g, b, a) == [t |-> "color", r |-> r, g |-> g, b |-> b, a |-> a]
Dictionary(entries) == [t |-> "dictionary", v |-> entries]
Array(items) == [t |-> "array", v |-> items]
NodeObject(class, name, path) ==
  [t |-> "node", class |-> class, name |-> name, path |-> path]
ResourceObject(class, path) ==
  [t |-> "resource", class |-> class, path |-> path]
OtherObject(text) == [t |-> "object", text |-> text]
Other(type, text) == [t |-> type, text |-> text]

\* the decimal digits of a natural number below 100
Digits(n) ==
  LET d == [i \in 0..9 |->
              CASE i = 0 -> "0" [] i = 1 -> "1" [] i = 2 -> "2" [] i = 3 -> "3"
                [] i = 4 -> "4" [] i = 5 -> "5" [] i = 6 -> "6"
                [] i = 7 -> "7" [] i = 8 -> "8" [] OTHER -> "9"]
  IN  IF n < 10 THEN <<d[n]>> ELSE <<d[n \div 10], d[n % 10]>>

\* str(): a string is a sequence of characters
str(value) ==
  CASE value.t = "string" -> value.v
    [] value.t = "int" -> Digits(value.v)
    [] value.t = "float" -> value.v
    [] value.t = "bool" -> IF value.v THEN <<"t", "r", "u", "e">>
                           ELSE <<"f", "a", "l", "s", "e">>
    [] value.t = "nil" -> <<"<", "n", "u", "l", "l", ">">>
    [] OTHER -> value.text

\* result[key] = value on the entries of a Dictionary: a key that is there
\* keeps its place
Put(entries, key, value) ==
  IF \E i \in 1..Len(entries) : entries[i].k = key
  THEN [i \in 1..Len(entries) |->
          IF entries[i].k = key THEN [k |-> key, v |-> value]
          ELSE entries[i]]
  ELSE Append(entries, [k |-> key, v |-> value])

\* a serializer that keeps the keys of a Dictionary as they are
RECURSIVE _serialize_value_keys(_)
_serialize_value_keys(value) ==
  CASE value.t \in {"nil", "bool", "int", "float", "string"} -> value
    [] value.t = "vector2" ->
         Dictionary(<<[k |-> String(<<"x">>), v |-> Float(value.x)],
                      [k |-> String(<<"y">>), v |-> Float(value.y)]>>)
    [] value.t = "vector3i" ->
         Dictionary(<<[k |-> String(<<"x">>), v |-> Integer(value.x)],
                      [k |-> String(<<"y">>), v |-> Integer(value.y)],
                      [k |-> String(<<"z">>), v |-> Integer(value.z)]>>)
    [] value.t = "color" ->
         Dictionary(<<[k |-> String(<<"r">>), v |-> Float(value.r)],
                      [k |-> String(<<"g">>), v |-> Float(value.g)],
                      [k |-> String(<<"b">>), v |-> Float(value.b)],
                      [k |-> String(<<"a">>), v |-> Float(value.a)]>>)
    [] value.t = "dictionary" ->
         Dictionary([i \in 1..Len(value.v) |->
                       [k |-> value.v[i].k,
                        v |-> _serialize_value_keys(value.v[i].v)]])
    [] value.t = "array" ->
         Array([i \in 1..Len(value.v) |-> _serialize_value_keys(value.v[i])])
    [] value.t = "node" ->
         Dictionary(<<[k |-> String(<<"class">>), v |-> String(value.class)],
                      [k |-> String(<<"name">>), v |-> String(value.name)],
                      [k |-> String(<<"path">>), v |-> String(value.path)]>>)
    [] value.t = "resource" ->
         Dictionary(<<[k |-> String(<<"class">>), v |-> String(value.class)],
                      [k |-> String(<<"path">>), v |-> String(value.path)]>>)
    [] OTHER -> String(str(value))

\* _serialize_value; SerializeEntries is its loop over a Dictionary, from
\* entry i on, into result
RECURSIVE _serialize_value(_), SerializeEntries(_, _, _)
_serialize_value(value) ==
  CASE value.t \in {"nil", "bool", "int", "float", "string"} -> value
    [] value.t = "vector2" ->
         Dictionary(<<[k |-> String(<<"x">>), v |-> Float(value.x)],
                      [k |-> String(<<"y">>), v |-> Float(value.y)]>>)
    [] value.t = "vector3i" ->
         Dictionary(<<[k |-> String(<<"x">>), v |-> Integer(value.x)],
                      [k |-> String(<<"y">>), v |-> Integer(value.y)],
                      [k |-> String(<<"z">>), v |-> Integer(value.z)]>>)
    [] value.t = "color" ->
         Dictionary(<<[k |-> String(<<"r">>), v |-> Float(value.r)],
                      [k |-> String(<<"g">>), v |-> Float(value.g)],
                      [k |-> String(<<"b">>), v |-> Float(value.b)],
                      [k |-> String(<<"a">>), v |-> Float(value.a)]>>)
    [] value.t = "dictionary" ->
         Dictionary(SerializeEntries(value.v, 1, <<>>))
    [] value.t = "array" ->
         Array([i \in 1..Len(value.v) |-> _serialize_value(value.v[i])])
    [] value.t = "node" ->
         Dictionary(<<[k |-> String(<<"class">>), v |-> String(value.class)],
                      [k |-> String(<<"name">>), v |-> String(value.name)],
                      [k |-> String(<<"path">>), v |-> String(value.path)]>>)
    [] value.t = "resource" ->
         Dictionary(<<[k |-> String(<<"class">>), v |-> String(value.class)],
                      [k |-> String(<<"path">>), v |-> String(value.path)]>>)
    [] OTHER -> String(str(value))

SerializeEntries(entries, i, result) ==
  IF i > Len(entries) THEN result
  ELSE SerializeEntries(entries, i + 1,
         Put(result, String(str(entries[i].k)),
             _serialize_value(entries[i].v)))

\* what execute returns: values without entries or items,
Leaves ==
  {Nil, Bool(TRUE), Integer(1), Float(<<"1", ".", "5">>), String(<<"1">>),
   Vector2(<<"1">>, <<"2">>), Vector3i(1, 2, 3),
   Color(<<"1">>, <<"0">>, <<"0">>, <<"1">>),
   NodeObject(<<"Button">>, <<"Ok">>, <<"/root/Main/Ok">>),
   ResourceObject(<<"Theme">>, <<"res://t.tres">>),
   OtherObject(<<"<RefCounted#1>">>), Other("string_name", <<"jump">>),
   Other("rect2", <<"[P: (0, 0), S: (1, 1)]">>)}

\* the keys of a Dictionary: an integer, the string of its digits, a name
Keys == {Integer(1), String(<<"1">>), Other("string_name", <<"jump">>)}

\* what the larger Dictionaries and Arrays hold
Items ==
  {Integer(1), String(<<"1">>), Vector2(<<"1">>, <<"2">>),
   NodeObject(<<"Button">>, <<"Ok">>, <<"/root/Main/Ok">>),
   Other("string_name", <<"jump">>)}

\* Dictionaries, with different keys, and Arrays of up to MaxItems values
Containers(values) ==
  UNION {{Array(a) : a \in [1..m -> values]} : m \in 0..MaxItems}
    \cup UNION {{Dictionary(e) :
                   e \in {e \in [1..m -> [k : Keys, v : values]] :
                            \A i, j \in 1..m : i # j => e[i].k # e[j].k}} :
                 m \in 0..MaxItems}

\* every leaf alone and in an Array, the containers of items, and an Array
\* and a Dictionary of each container
Values ==
  Leaves \cup {Array(<<l>>) : l \in Leaves} \cup Containers(Items)
    \cup {Array(<<c>>) : c \in Containers(Items)}
    \cup {Dictionary(<<[k |-> k, v |-> c]>>) :
            k \in Keys, c \in Containers(Items)}

\* _handle_run_script on a script whose execute returns `value`: the reply
\* carries the serialized result
Returns(value) ==
  /\ received = 0
  /\ received' = received + 1
  /\ _send_response(received + 1,
       [peer |-> received + 1, cmd |-> "run_script", batch |-> <<>>,
        busy |-> _is_processing_input, error |-> NoError, processed |-> -1,
        emitted |-> 0, elements |-> <<>>, ran |-> <<"execute">>,
        events |-> <<>>, value |-> value,
        result |-> _serialize_value(value)])
  /\ UNCHANGED <<_is_processing_input, suspended>>
  /\ UNCHANGED notListener

SerializeNext == \E value \in Values : Returns(value)

SpecSerialize == ListenerInit /\ [][SerializeNext]_vars

(***************************************************************************)
(* Pairing: sendCommand calls that may overlap, each on its own socket.    *)
(* createSocket and send without bind give the socket a port the system    *)
(* picks among those no open socket holds; the listener answers to the     *)
(* address a datagram came from.  Here `send` holds                        *)
(*   calls   every call so far: its port, promise, socket and timer        *)
(*   queue   the calls whose datagram became a connection of the           *)
(*           UDPServer, in their order: the listener's k-th peer is the    *)
(*           socket of call queue[k]                                       *)
(*   landed  the peers whose reply packet has left the wire                *)
(***************************************************************************)
Ports == {1, 2}

\* the batches the calls send: one that waits, one that is answered at once
Sent == {Input(<<Wait(100)>>), Input(<<Key("A")>>)}

NoCalls == [calls |-> <<>>, queue |-> <<>>, landed |-> {}]

\* the calls whose socket is open
Open == {m \in 1..Len(send.calls) : ~send.calls[m].settled}

\* sendCommand: a new socket on a port no open socket holds, the timer
\* armed, the datagram sent
SendOn(command, port) ==
  /\ Len(send.calls) < MaxCalls
  /\ \A m \in Open : send.calls[m].port # port
  /\ send' = [send EXCEPT !.calls = Append(@,
                [command |-> command, port |-> port, settled |-> FALSE,
                 settles |-> 0, result |-> "none", first |-> "none",
                 closes |-> 0, timer |-> "armed", at |-> "sent",
                 from |-> 0])]
  /\ UNCHANGED notSend

\* the port of the k-th peer of the listener
PortOf(k) == send.calls[send.queue[k]].port

\* UDPServer.poll on the datagram of call m: a datagram from the address of
\* a peer that is still referenced, by a waiting coroutine or as a
\* connection not yet taken, is stored in that peer, where nothing reads
\* it; any other becomes a new connection
poll(m) ==
  /\ m \in 1..Len(send.calls)
  /\ send.calls[m].at = "sent"
  /\ LET known ==
           \/ \E c \in suspended : PortOf(c.peer) = send.calls[m].port
           \/ \E k \in (received + 1)..Len(send.queue) :
                PortOf(k) = send.calls[m].port
     IN  send' = [send EXCEPT
                    !.calls[m].at = IF known THEN "stored" ELSE "queued",
                    !.queue = IF known THEN @ ELSE Append(@, m)]
  /\ UNCHANGED notSend

\* _process: the listener takes the next connection and its packet
take_connection(d) ==
  /\ received < Len(send.queue)
  /\ received < MaxDatagrams
  /\ d \in Sent
  /\ _process(d)

\* a reply packet that reaches whatever socket is open
message_any(k) ==
  /\ k \in 1..Len(send.queue)
  /\ k \notin send.landed
  /\ replies[k] > 0
  /\ LET to == Open
     IN  send' = [send EXCEPT
                    !.landed = @ \cup {k},
                    !.calls = [m \in 1..Len(@) |->
                                 IF m \in to
                                 THEN [Settle(Noted(@[m], "reply"),
                                              "reply", TRUE)
                                         EXCEPT !.from = send.queue[k]]
                                 ELSE @[m]]]
  /\ UNCHANGED notSend

\* the reply packet to the k-th peer reaches the port it is addressed to:
\* socket.on('message') of the open socket on that port, if there is one
message(k) ==
  /\ k \in 1..Len(send.queue)
  /\ k \notin send.landed
  /\ replies[k] > 0
  /\ LET to == {m \in Open : send.calls[m].port = PortOf(k)}
     IN  send' = [send EXCEPT
                    !.landed = @ \cup {k},
                    !.calls = [m \in 1..Len(@) |->
                                 IF m \in to
                                 THEN [Settle(Noted(@[m], "reply"),
                                              "reply", TRUE)
                                         EXCEPT !.from = send.queue[k]]
                                 ELSE @[m]]]
  /\ UNCHANGED notSend

\* the timer of call m fires
setTimeout(m) ==
  /\ m \in 1..Len(send.calls)
  /\ send.calls[m].timer = "armed"
  /\ send' = [send EXCEPT !.calls[m] =
                Settle(Noted([@ EXCEPT !.timer = "fired"], "timeout"),
                       "timeout", FALSE)]
  /\ UNCHANGED notSend

PairingInit ==
  /\ fs = [r \in Roots |-> FreshProject]
  /\ orig = fs
  /\ injectedProjects = {}
  /\ activeProcess = NoProc
  /\ activeProjectPath = NoRoot
  /\ procOs = [p \in Pids |-> "none"]
  /\ procRoot = [p \in Pids |-> NoRoot]
  /\ hasExited = [p \in Pids |-> FALSE]
  /\ listener = [p \in Pids |-> "none"]
  /\ lastOp = [op |-> "none", ok |-> TRUE, prev |-> NoRoot]
  /\ send = NoCalls
  /\ capture = NoCapture
  /\ call = NoCall
  /\ ListenerIdle
  /\ tree = DemoTree
  /\ readOnly = {}

PairingNext ==
  \/ \E port \in Ports : SendOn("simulate_input", port)
  \/ \E m \in 1..MaxCalls : poll(m)
  \/ \E d \in Sent : take_connection(d)
  \/ \E c \in suspended : timeout(c)
  \/ \E k \in 1..MaxDatagrams : message(k)
  \/ \E m \in 1..MaxCalls : setTimeout(m)

SpecPairing == PairingInit /\ [][PairingNext]_vars

(***************************************************************************)
(* Pre-emption: the session with the data handlers of every process it     *)
(* spawned.  runProject makes the output and errors arrays and the         *)
(* GodotProcess object anew in each call, and the handlers it registers    *)
(* on the child close over them: here `capture` holds the buffers of each  *)
(* process                                                                 *)
(***************************************************************************)
\* a chunk of one line
OneLine == <<"line">>

\* a stdout handler that appends to the buffer of the tracked process
OnStdoutOf_tracked(p) ==
  /\ procOs[p] # "none"
  /\ Len(capture[p].allOutput) < 1
  /\ activeProcess # NoProc
  /\ capture' = [capture EXCEPT
                   ![activeProcess].output = Appended(@, OneLine),
                   ![p].allOutput = @ \o OneLine]
  /\ UNCHANGED notCapture

\* proc.stdout.on('data') of process p, which may be running, killed or
\* dead with data still in its pipe
OnStdoutOf(p) ==
  /\ procOs[p] # "none"
  /\ Len(capture[p].allOutput) < 1
  /\ capture' = [capture EXCEPT ![p].output = Appended(@, OneLine),
                                ![p].allOutput = @ \o OneLine]
  /\ UNCHANGED notCapture

\* proc.stderr.on('data') of process p
OnStderrOf(p) ==
  /\ procOs[p] # "none"
  /\ Len(capture[p].allErrors) < 1
  /\ capture' = [capture EXCEPT ![p].errors = Appended(@, OneLine),
                                ![p].allErrors = @ \o OneLine]
  /\ UNCHANGED notCapture

PreemptInit ==
  /\ fs = [r \in Roots |-> FreshProject]
  /\ orig = fs
  /\ injectedProjects = {}
  /\ activeProcess = NoProc
  /\ activeProjectPath = NoRoot
  /\ procOs = [p \in Pids |-> "none"]
  /\ procRoot = [p \in Pids |-> NoRoot]
  /\ hasExited = [p \in Pids |-> FALSE]
  /\ listener = [p \in Pids |-> "none"]
  /\ lastOp = [op |-> "none", ok |-> TRUE, prev |-> NoRoot]
  /\ send = NoSend
  /\ capture = [p \in Pids |-> NoCapture]
  /\ call = NoCall
  /\ ListenerIdle
  /\ tree = DemoTree
  /\ readOnly = {}

PreemptNext ==
  \/ \E path \in Roots : handleRunProject(path, "")
  \/ handleStopProject
  \/ handleGetDebugOutput
  \/ handleTakeScreenshot
  \/ \E p \in Pids : ProcExits(p)
  \/ \E p \in Pids : OnExit(p)
  \/ \E p \in Pids : OnStdoutOf(p)
  \/ \E p \in Pids : OnStderrOf(p)

SpecPreempt == PreemptInit /\ [][PreemptNext]_vars

(***************************************************************************)
(* The timeout of simulate_input: the handler sends a batch with the        *)
(* timeout it computes, the listener runs the batch through its waits      *)
(***************************************************************************)
\* the loop over the actions: the ms of every wait whose ms is a number
RECURSIVE totalWaitMs(_)
totalWaitMs(actions) ==
  IF actions = <<>> THEN 0
  ELSE (IF Head(actions).type = "wait" /\ Head(actions).msNum
        THEN Head(actions).ms ELSE 0) + totalWaitMs(Tail(actions))

\* handleSimulateInput from its loop on: sendCommand('input', {actions},
\* totalWaitMs + 10000)
SimulateInput(actions) ==
  /\ send.settled
  /\ send.calls < MaxCalls
  /\ send' = [calls |-> send.calls + 1, command |-> "simulate_input",
              settled |-> FALSE, settles |-> 0, result |-> "none",
              first |-> "none", closes |-> 0, timer |-> "armed",
              callback |-> "pending", events |-> 0,
              timeoutMs |-> totalWaitMs(actions) + 10000,
              actions |-> actions]
  /\ UNCHANGED notSend

\* the batches a client sends: keys and waits of every kind of ms
TimedActions ==
  {Key("A"), Key("BOGUS_KEY"), Wait(100), Wait(0), Wait(-5), WaitText}
TimedBatches == UNION {[1..m -> TimedActions] : m \in 1..MaxBatch}

\* the listener takes the batch of the call
DeliverSent ==
  /\ received < send.calls
  /\ _process(Input(send.actions))

TimeoutNext ==
  \/ \E b \in TimedBatches : SimulateInput(b)
  \/ DeliverSent
  \/ \E c \in suspended : timeout(c)
  \/ OnTimeout
  \/ Arrives

SpecTimeout == SendInit /\ [][TimeoutNext]_vars

(***************************************************************************)
(* Debug output: get_debug_output on the buffers of the tracked process    *)
(***************************************************************************)
\* the default of `limit`: stands for the 200, below the 500 of the buffers
DefaultLimit == 1

\* Array.prototype.slice(start): a negative start counts from the end, and
\* -0 is 0
slice(array, start) ==
  LET len == Len(array)
      k == IF start < 0 THEN (IF len + start < 0 THEN 0 ELSE len + start)
           ELSE (IF start > len THEN len ELSE start)
  IN  SubSeq(array, k + 1, len)

\* the values of args.limit: no number (or absent), or an integer
Limits ==
  {[num |-> FALSE, value |-> 0]}
    \cup {[num |-> TRUE, value |-> v] : v \in (-1)..(BufferCap + 1)}

\* handleGetDebugOutput, past its test for a tracked process
GetDebugOutput(args) ==
  LET limit == IF args.num THEN args.value ELSE DefaultLimit
  IN  /\ capture' =
           [capture EXCEPT !.response =
              [asked |-> TRUE, limitNum |-> args.num, limit |-> args.value,
               output |-> slice(capture.output, -limit),
               errors |-> slice(capture.errors, -limit)]]
      /\ UNCHANGED notCapture

\* data events, then get_debug_output calls
DebugNext ==
  \/ ~capture.response.asked /\ CaptureNext
  \/ \E args \in Limits : GetDebugOutput(args)

SpecDebug == SendInit /\ [][DebugNext]_vars

\* C16: after data events only, each buffer holds at most BufferCap
\* entries, and they are the most recent ones of all that were appended to
\* it, in their order; this holds for the output buffer always.
C16_BuffersKeepMostRecent ==
  /\ Len(capture.output) <= BufferCap
  /\ capture.output = Recent(capture.allOutput, BufferCap)
  /\ ~capture.failed
     => /\ Len(capture.errors) <= BufferCap
        /\ capture.errors = Recent(capture.allErrors, BufferCap)

\* both buffers are full and have dropped entries
C16_Witness ==
  /\ ~capture.failed
  /\ Len(capture.allOutput) > BufferCap /\ Len(capture.output) = BufferCap
  /\ Len(capture.allErrors) > BufferCap /\ Len(capture.errors) = BufferCap
  /\ capture.output # capture.errors

(***************************************************************************)
(* get_ui_elements with visible_only                                       *)
(***************************************************************************)
\* every node below `node`, `node` included unless it is the root window,
\* parents before children and children in their order
RECURSIVE Preorder(_, _)
Preorder(t, node) ==
  LET RECURSIVE Each(_)
      Each(k) == IF k = <<>> THEN <<>>
                 ELSE Preorder(t, Head(k)) \o Each(Tail(k))
  IN  (IF node = 0 THEN <<>> ELSE <<node>>) \o Each(get_children(t, node))

\* the Controls of a sequence of nodes that are visible in the tree
RECURSIVE VisibleControls(_, _)
VisibleControls(t, nodes) ==
  IF nodes = <<>> THEN <<>>
  ELSE (IF t[Head(nodes)].control /\ is_visible_in_tree(t, Head(nodes))
        THEN <<Head(nodes)>> ELSE <<>>)
         \o VisibleControls(t, Tail(nodes))

\* C21: with visible_only and no type filter, get_ui_elements lists exactly
\* the Controls that are visible in the tree, each once, parents before
\* children, and no hidden one.
C21_VisibleControlsListed ==
  [][GetUiElements(TRUE, "")
       => lastReply'.elements = VisibleControls(tree, Preorder(tree, 0))]_vars

(***************************************************************************)
(* run_script                                                              *)
(***************************************************************************)
RunScript(source) == Datagram("json", "run_script", FALSE, <<>>, "", source)

\* how often a script function is among those that ran
Times(ran, f) == Cardinality({k \in 1..Len(ran) : ran[k] = f})

\* C22: a source that compiles and defines execute has execute called once
\* and gets no error; any other source gets an error and nothing of it
\* runs.
C22_ScriptRunsOnlyWhenValid ==
  [][\A source \in Sources :
       _process(RunScript(source))
       => IF Compiles(source) /\ has_method_execute(source)
          THEN /\ lastReply'.error = NoError
               /\ Times(lastReply'.ran, "execute") = 1
          ELSE /\ lastReply'.error # NoError
               /\ lastReply'.ran = <<>>]_vars

(***************************************************************************)
(* injectedProjects and the registrations                                  *)
(***************************************************************************)
\* project.godot of the root holds the bridge entry
Registered(r) == Includes(fs[r].godot, "ENTRY")

\* C23: injectedProjects is the set of the roots whose project.godot holds
\* the bridge entry.
C23_InjectedIffRegistered ==
  injectedProjects = {r \in Roots : Registered(r)}

(***************************************************************************)
(* What changes the session state                                          *)
(***************************************************************************)
\* the tracked process, the active root and injectedProjects
SessionState == <<activeProcess, activeProjectPath, injectedProjects>>

\* C24: a step that changes the tracked process, the active root or
\* injectedProjects is a run_project or a stop_project; exit events,
\* get_debug_output and the bridge commands leave the three alone.
C24_OnlyStartAndStopChangeSession ==
  [][SessionState' # SessionState
       => \/ \E path \in PathInputs, scene \in SceneInputs :
               handleRunProject(path, scene)
          \/ handleStopProject]_vars

\* a bridge command was called after the exit event of the tracked process,
\* and the process is tracked and its root active and injected as before
C24_Witness ==
  /\ lastOp.op \in RuntimeTools
  /\ activeProcess # NoProc
  /\ hasExited[activeProcess]
  /\ activeProjectPath = procRoot[activeProcess]
  /\ activeProjectPath \in injectedProjects

(***************************************************************************)
(* Shutdown signals                                                        *)
(***************************************************************************)
\* C25: when the server has exited on a shutdown signal, no process is
\* tracked, no target process is left running and no project.godot holds
\* the bridge entry.
C25_ShutdownLeavesNothing ==
  lastOp.op = "shutdown"
    => /\ activeProcess = NoProc
       /\ \A p \in Pids : procOs[p] # "running"
       /\ \A r \in Roots : ~Registered(r)

(***************************************************************************)
(* A client timeout and the batch in the target                            *)
(***************************************************************************)
\* the loop of a batch run through all its waits, to its reply
RECURSIVE Run(_, _, _, _, _)
Run(t, actions, i, processed, emitted) ==
  LET r == Loop(t, actions, i, processed, emitted)
  IN  IF r.state = "await"
      THEN LET n == Run(t, actions, r.i + 1, r.processed + 1, r.emitted)
           IN  [n EXCEPT !.events = r.events \o @]
      ELSE r

\* C26: the timer of sendCommand changes nothing in the target; while a
\* batch waits the flag is set, whatever became of the call that sent it; a
\* batch taken while the flag is set is answered "already in progress"; and
\* the reply of a batch that ran is the one of its loop run to the end.
C26_TimeoutAbandonsOnly ==
  /\ [][OnTimeout => UNCHANGED lvars]_vars
  /\ [](InputsInFlight # {} => _is_processing_input)
  /\ [][\A d \in Outgoing("simulate_input") :
          (Deliver(d) /\ _is_processing_input)
          => /\ lastReply'.peer = received'
             /\ lastReply'.error.msg = "Input sequence already in progress"
             /\ UNCHANGED <<_is_processing_input, suspended>>]_vars
  /\ [](Executed =>
          LET r == Run(tree, lastReply.batch, 1, 0, 0)
          IN  /\ lastReply.processed = r.processed
              /\ lastReply.error = r.error
              /\ lastReply.emitted = r.emitted
              /\ lastReply.events = r.events)

\* the first call timed out while its batch waits in the target, and the
\* batch of the second call was rejected as already in progress
C26_Witness ==
  /\ send.calls = 2
  /\ received = 2
  /\ replies[1] = 0
  /\ \E c \in suspended : c.cmd = "input" /\ c.peer = 1
  /\ lastReply.peer = 2
  /\ lastReply.error.msg = "Input sequence already in progress"

(***************************************************************************)
(* The events of a batch                                                   *)
(***************************************************************************)
\* the index of the first action of a batch that fails, Len + 1 if none
FirstFailing(t, batch) ==
  LET failing == {k \in 1..Len(batch) : ActionError(t, batch[k]) # ""}
  IN  IF failing = {} THEN Len(batch) + 1
      ELSE CHOOSE k \in failing : \A j \in failing : k <= j

\* the events of the actions 1..n of a batch, one action after the other
RECURSIVE EventsOfFirst(_, _, _)
EventsOfFirst(t, batch, n) ==
  IF n = 0 THEN <<>>
  ELSE EventsOfFirst(t, batch, n - 1) \o Parsed(t, batch[n])

\* C27: the events a batch has emitted when it replies are those of its
\* actions before the first failing one, in the order of the actions; the
\* failing action and the actions after it add none. While the batch waits,
\* the events so far are those of the actions before the wait.
C27_EventsInSubmissionOrder ==
  /\ Executed
       => LET f == FirstFailing(tree, lastReply.batch)
          IN  /\ lastReply.events = EventsOfFirst(tree, lastReply.batch, f - 1)
              /\ Len(lastReply.events) = lastReply.emitted
              /\ lastReply.processed = f - 1
  /\ \A c \in InputsInFlight :
        /\ c.i < FirstFailing(tree, c.actions)
        /\ c.events = EventsOfFirst(tree, c.actions, c.i)

\* a batch of two actions failed at its second action after the first had
\* emitted two events
C27_Witness ==
  /\ Executed
  /\ Len(lastReply.batch) = 2
  /\ FirstFailing(tree, lastReply.batch) = 2
  /\ Len(lastReply.events) = 2
  /\ lastReply.error # NoError

(***************************************************************************)
(* wait actions                                                            *)
(***************************************************************************)
\* the ms of a wait is a number that is not negative
MsAccepted(action) == action.msNum /\ action.ms >= 0

\* C29: a wait is accepted only when its ms is a non-negative number: a
\* batch never gets past a wait whose ms is negative or no number, and its
\* reply names that wait as the failing action.
C29_WaitNeedsNonNegativeMs ==
  Executed =>
    \A k \in 1..Len(lastReply.batch) :
      (lastReply.batch[k].type = "wait" /\ ~MsAccepted(lastReply.batch[k]))
        => /\ lastReply.processed < k
           /\ lastReply.error # NoError

(***************************************************************************)
(* mouse_button actions                                                    *)
(***************************************************************************)
\* the events the reply of a batch of one action reports
OnlyAction == lastReply.batch[1]

\* C30: a batch of one mouse_button action with a known button emits one
\* event with the given pressed state when the action has a pressed field,
\* and otherwise a press and then a release, both at the coordinates of the
\* action; with an unknown button it fails and emits nothing.
C30_MouseButtonEvents ==
  (Executed /\ Len(lastReply.batch) = 1 /\ OnlyAction.type = "mouse_button")
    => IF OnlyAction.button \in {"left", "right", "middle"}
       THEN /\ lastReply.error = NoError
            /\ lastReply.processed = 1
            /\ IF OnlyAction.hasPressed
               THEN lastReply.events =
                      <<[kind |-> "mouse_button", code |-> OnlyAction.button,
                         pressed |-> OnlyAction.pressed,
                         at |-> OnlyAction.x]>>
               ELSE lastReply.events =
                      <<[kind |-> "mouse_button", code |-> OnlyAction.button,
                         pressed |-> TRUE, at |-> OnlyAction.x],
                        [kind |-> "mouse_button", code |-> OnlyAction.button,
                         pressed |-> FALSE, at |-> OnlyAction.x]>>
       ELSE /\ lastReply.error.msg = "unknown button"
            /\ lastReply.processed = 0
            /\ lastReply.events = <<>>

\* a mouse_button without a pressed field was replied to with two events
C30_Witness ==
  /\ Executed
  /\ Len(lastReply.batch) = 1
  /\ OnlyAction.type = "mouse_button"
  /\ ~OnlyAction.hasPressed
  /\ Len(lastReply.events) = 2

(***************************************************************************)
(* input commands without actions                                          *)
(***************************************************************************)
\* input commands whose actions are an empty array, or no array
NoActions ==
  {Input(<<>>), Datagram("json", "input", FALSE, <<>>, "", "")}

\* C28: an input command whose actions are empty or no array gets an error
\* reply that says so; no action runs and no event is emitted for it, and
\* the flag and the batch in flight, if there is one, stay as they are.
C28_NoActionsRejected ==
  [][\A d \in NoActions :
       _process(d)
       => /\ lastReply'.peer = received'
          /\ lastReply'.error.msg =
               (IF d.isArray THEN "actions array is empty"
                ELSE "actions must be an array")
          /\ lastReply'.processed = -1
          /\ lastReply'.events = <<>>
          /\ UNCHANGED <<_is_processing_input, suspended>>]_vars

\* such a command was rejected while a batch was in flight
C28_Witness ==
  /\ lastReply.cmd = "input"
  /\ lastReply.batch = <<>>
  /\ lastReply.error.msg \in {"actions array is empty",
                              "actions must be an array"}
  /\ lastReply.busy
  /\ InputsInFlight # {}
  /\ _is_processing_input
(***************************************************************************)
(* Element resolution                                                      *)
(***************************************************************************)
\* the numbers of the nodes from the root window down to node n
RECURSIVE Chain(_, _)
Chain(t, n) == IF n = 0 THEN <<>> ELSE Append(Chain(t, t[n].parent), n)

\* level order: n is shallower than m, or as deep and to the left of it (the
\* first nodes at which their chains part are siblings, the earlier first)
LevelBefore(t, n, m) ==
  \/ Depth(t, n) < Depth(t, m)
  \/ /\ Depth(t, n) = Depth(t, m)
     /\ \E i \in 1..Depth(t, n) :
          /\ Chain(t, n)[i] < Chain(t, m)[i]
          /\ \A j \in 1..(i - 1) : Chain(t, n)[j] = Chain(t, m)[j]

\* the Controls an identifier names as an absolute path, as a path relative
\* to the root window, and by its name
ByAbsolute(t, identifier) ==
  {n \in 1..Len(t) :
     t[n].control /\ identifier.abs /\ get_path(t, n) = identifier.names}
ByRelative(t, identifier) ==
  {n \in 1..Len(t) :
     /\ t[n].control
     /\ ~identifier.abs
     /\ get_path(t, n) = <<"root">> \o identifier.names}
ByName(t, identifier) ==
  {n \in 1..Len(t) :
     t[n].control /\ ~identifier.abs /\ identifier.names = <<t[n].name>>}

\* the first match of the three, 0 if none has one
FirstMatch(t, identifier) ==
  LET a == ByAbsolute(t, identifier)
      b == ByRelative(t, identifier)
      c == ByName(t, identifier)
  IN  IF a # {} THEN CHOOSE n \in a : TRUE
      ELSE IF b # {} THEN CHOOSE n \in b : TRUE
      ELSE IF c # {}
      THEN CHOOSE n \in c : \A m \in c \ {n} : LevelBefore(t, n, m)
      ELSE 0

\* C31: a click on an element lands on the first match of the identifier as
\* an absolute path, as a path relative to the root window, and as a name
\* searched breadth first (shallowest, then leftmost); it fails with "Could
\* not find UI element" only when none of the three finds a Control.
C31_FirstMatchResolved ==
  (Executed /\ Len(lastReply.batch) = 1
     /\ OnlyAction.type = "click_element")
    => LET target == FirstMatch(tree, OnlyAction.element)
       IN  IF target = 0
           THEN /\ lastReply.error.msg = "Could not find UI element"
                /\ lastReply.events = <<>>
           ELSE /\ lastReply.error = NoError
                /\ Len(lastReply.events) = 2
                /\ lastReply.events[1].at = 100 + target

\* a name was resolved to the left one of two Controls of the same depth,
\* the right one having the lower number, its path naming no Control
C31_Witness ==
  /\ Executed
  /\ Len(lastReply.batch) = 1
  /\ OnlyAction.type = "click_element"
  /\ lastReply.error = NoError
  /\ ByRelative(tree, OnlyAction.element) = {}
  /\ \E n, m \in ByName(tree, OnlyAction.element) :
       /\ n > m
       /\ Depth(tree, n) = Depth(tree, m)
       /\ lastReply.events[1].at = 100 + n
LimitUsed ==
  IF capture.response.limitNum THEN capture.response.limit ELSE DefaultLimit

\* C33: a get_debug_output returns at most `limit` lines of each buffer, the
\* most recent ones, the limit being the default when none is given; this
\* holds for every number given as limit, 0 included.
C33_AtMostLimitLines ==
  (capture.response.asked /\ LimitUsed >= 0)
    => /\ Len(capture.response.output) <= LimitUsed
       /\ Len(capture.response.errors) <= LimitUsed
       /\ capture.response.output = Recent(capture.output, LimitUsed)
       /\ capture.response.errors = Recent(capture.errors, LimitUsed)
(***************************************************************************)
(* The client timeout of simulate_input                                    *)
(***************************************************************************)
\* the time the listener spends in the awaits of a batch: the ms of every
\* wait at which its loop suspends
RECURSIVE Suspension(_, _, _, _, _)
Suspension(t, actions, i, processed, emitted) ==
  LET r == Loop(t, actions, i, processed, emitted)
  IN  IF r.state = "await"
      THEN actions[r.i].ms
             + Suspension(t, actions, r.i + 1, r.processed + 1, r.emitted)
      ELSE 0

\* C34: the timeout of a simulate_input call is the sum of the wait
\* durations of its batch plus 10000 ms, which is at least 10000 ms and at
\* least 10000 ms more than the time the listener suspends for the batch.
C34_TimeoutCoversWaits ==
  send.command = "simulate_input"
    => /\ send.timeoutMs = totalWaitMs(send.actions) + 10000
       /\ send.timeoutMs >= 10000
       /\ send.timeoutMs >= 10000 + Suspension(tree, send.actions, 1, 0, 0)
(***************************************************************************)
(* The tracked process and the active root                                 *)
(***************************************************************************)
\* C35: once a run_project or a stop_project has returned, a process is
\* tracked exactly if a root is active: no root stays active, and injected,
\* without a tracked process.
C35_TrackedIffActiveRoot ==
  lastOp.op \in {"run_project", "stop_project"}
    => /\ activeProcess # NoProc <=> activeProjectPath # NoRoot
       /\ ~(/\ activeProjectPath \in injectedProjects
            /\ activeProcess = NoProc)
(***************************************************************************)
(* Events of a process that was pre-empted                                 *)
(***************************************************************************)
\* C36: the buffers and the exited flag of a process change only in the
\* data and exit handlers of that process, so the events of a process that
\* a run_project pre-empted leave the newly tracked process alone; a
\* take_screenshot is not refused while the tracked process runs, whatever
\* events of other processes came in.
C36_OldEventsLeaveNewProcess ==
  /\ [][\A q \in Pids :
          /\ capture'[q] # capture[q] => (OnStdoutOf(q) \/ OnStderrOf(q))
          /\ hasExited'[q] # hasExited[q] => OnExit(q)]_vars
  /\ [][(/\ activeProcess # NoProc
         /\ procOs[activeProcess] = "running"
         /\ handleTakeScreenshot) => lastOp'.ok]_vars

\* a take_screenshot was sent to the second process, whose buffers are
\* empty, after the exit event and output of the first, which it pre-empted
C36_Witness ==
  /\ lastOp.op = "take_screenshot"
  /\ lastOp.ok
  /\ activeProcess = 2
  /\ procRoot[1] = procRoot[2]
  /\ hasExited[1]
  /\ ~hasExited[2]
  /\ capture[1].output = OneLine
  /\ capture[1].errors = OneLine
  /\ capture[2].output = <<>>
  /\ capture[2].errors = <<>>
(***************************************************************************)
(* Which call a reply resolves                                             *)
(***************************************************************************)
\* the calls that were resolved with a reply
Replied == {m \in 1..Len(send.calls) : send.calls[m].result = "reply"}

\* C37 as stated: a call that is resolved with a reply is resolved with the
\* reply to its own datagram, also when calls overlap or a reply comes late.
C37_ReplyToCausingCall ==
  \A m \in Replied : send.calls[m].from = m

\* C37: open sockets hold different ports, and a call is resolved with the
\* reply to its own datagram or, its socket having been given the port of
\* an earlier call whose socket is closed, with the late reply to that one.
C37_ReplyToSamePort ==
  /\ \A m, n \in Open : m # n => send.calls[m].port # send.calls[n].port
  /\ \A m \in Replied :
       LET n == send.calls[m].from
       IN  \/ n = m
           \/ /\ n < m
              /\ send.calls[n].port = send.calls[m].port
              /\ send.calls[n].settled

\* the second call was resolved with its own reply while the socket of the
\* first, whose batch waits in the listener, was still open
C37_Witness ==
  /\ Len(send.calls) >= 2
  /\ 1 \in Open
  /\ send.calls[1].at = "queued"
  /\ suspended # {}
  /\ send.calls[2].result = "reply"
  /\ send.calls[2].from = 2
(***************************************************************************)
(* Batches end                                                             *)
(***************************************************************************)
\* the batch of peer p is executing: it waits in a wait action
Executing(p) == \E c \in InputsInFlight : c.peer = p

\* C38: while the engine runs, a batch that is executing is answered in the
\* end, and no peer ever gets a second reply; the flag is set exactly while
\* a batch is executing, so after a batch that failed, succeeded or was
\* rejected with no other batch executing, the flag is clear.
C38_BatchesEndAndFreeTheFlag ==
  /\ \A p \in 1..MaxDatagrams :
       Executing(p) ~> (~Executing(p) /\ replies[p] = 1)
  /\ [](\A p \in 1..MaxDatagrams : replies[p] <= 1)
  /\ [](_is_processing_input <=> \E p \in 1..MaxDatagrams : Executing(p))
  /\ [][(lastReply'.cmd = "input" /\ replies' # replies
           /\ ~\E p \in 1..MaxDatagrams : Executing(p)')
          => ~_is_processing_input']_vars

\* the first datagram was answered; a second batch, with a wait, was then
\* taken and ran to its end
C38_Witness ==
  /\ received = 2
  /\ replies[1] = 1
  /\ lastReply.peer = 2
  /\ lastReply.batch = <<Wait(100), Key("A")>>
  /\ ~lastReply.busy
  /\ lastReply.error = NoError
  /\ lastReply.processed = 2
  /\ ~_is_processing_input
(***************************************************************************)
(* The serialized result of a script                                       *)
(***************************************************************************)
\* null, a scalar, an object with strings as keys, or an array, of such
RECURSIVE Plain(_)
Plain(value) ==
  \/ value.t \in {"nil", "bool", "int", "float", "string"}
  \/ /\ value.t = "array"
     /\ \A i \in 1..Len(value.v) : Plain(value.v[i])
  \/ /\ value.t = "dictionary"
     /\ \A i \in 1..Len(value.v) :
          value.v[i].k.t = "string" /\ Plain(value.v[i].v)
     /\ \A i, j \in 1..Len(value.v) :
          i # j => value.v[i].k # value.v[j].k

\* C39: the result in the reply of a run_script is built of null, scalars,
\* objects with strings as keys and arrays only, and serializing it again
\* gives the same value.
C39_SerializedIsPlainAndFixed ==
  lastReply.cmd = "run_script"
    => /\ Plain(lastReply.result)
       /\ _serialize_value(lastReply.result) = lastReply.result

\* a Dictionary with the keys 1 and "1", which fall together, and a vector
\* as a value was serialized to an object of one entry
C39_Witness ==
  /\ lastReply.cmd = "run_script"
  /\ lastReply.value.t = "dictionary"
  /\ Len(lastReply.value.v) = 2
  /\ lastReply.value.v[1].k = Integer(1)
  /\ lastReply.value.v[2].k = String(<<"1">>)
  /\ lastReply.value.v[2].v.t = "vector2"
  /\ Len(lastReply.result.v) = 1
  /\ lastReply.result.v[1].v.t = "dictionary"

====
